---------------------------- MODULE FlowsProofs -----------------------------
(* Proofs about components that share no row: the consumer of an event, the *)
(* memberships of a workspace, the executions of a target on the channels,  *)
(* the stages of a video and the row of a media job. They hold for every    *)
(* number of workers, users, invitations, requests and handlers. Each part  *)
(* opens with the argument that its inductive invariant carries.            *)
EXTENDS EventConsumers, Memberships, ChannelProviders, VideoPipeline, MediaJobs,
        TLAPS, SequenceTheorems, FiniteSetTheorems

-----------------------------------------------------------------------------
(* EventConsumers: an attempt that calls the handler is alone with the      *)
(* event and has not found it done; a mark it reads stays true, because     *)
(* rows of processed events are never deleted.                              *)

\* Nothing has happened yet.
LEMMA ConsumerInitial == ConsumerInit => ConsumerIInv
  <1> SUFFICES ASSUME ConsumerInit PROVE ConsumerIInv
    OBVIOUS
  <1>1. \A w \in Workers : attempt[w] = [pc |-> "idle", number |-> 0]
    BY DEF ConsumerInit, NoAttempt
  <1>2. ConsumerTypeOK
    BY <1>1 DEF ConsumerInit, ConsumerTypeOK, NoAttempt
  <1>3. OneHolder /\ FoundStillTrue /\ CalledFirst
    BY <1>1 DEF OneHolder, FoundStillTrue, CalledFirst, Holding, Does
  <1> QED
    BY <1>2, <1>3 DEF ConsumerIInv, ConsumerInit

\* A step moves one attempt to a label, or ends it, and moves no other.
AttemptLabels == {"idle", "lock", "find", "execute", "record"}
Moves(w, label) ==
    /\ attempt' \in [Workers -> [pc : AttemptLabels, number : Nat]]
    /\ \A v \in Workers : attempt'[v].pc = IF v = w THEN label ELSE attempt[v].pc

LEMMA StepMoves ==
    ASSUME ConsumerTypeOK, NEW w \in Workers, NEW label \in AttemptLabels, Step(w, label)
    PROVE  Moves(w, label)
  BY DEF ConsumerTypeOK, Step, AttemptLabels, Moves

LEMMA OverMoves ==
    ASSUME ConsumerTypeOK, NEW w \in Workers, Over(w)
    PROVE  Moves(w, "idle")
  BY DEF ConsumerTypeOK, Over, AttemptLabels, NoAttempt, Moves

LEMMA DeliveryMoves ==
    ASSUME ConsumerTypeOK, NEW w \in Workers, DeliverEvent(w)
    PROVE  Moves(w, IF category = "A" THEN "lock" ELSE "find")
  BY DEF ConsumerTypeOK, DeliverEvent, AttemptLabels, Moves

\* Every step of an attempt keeps the invariant, at the other attempts as well.
LEMMA ConsumerStep == ConsumerIInv /\ [ConsumerNext]_consumerVars => ConsumerIInv'
  <1> SUFFICES ASSUME ConsumerIInv, [ConsumerNext]_consumerVars PROVE ConsumerIInv'
    OBVIOUS
  <1>t. ConsumerTypeOK
    BY DEF ConsumerIInv
  <1>1. ASSUME NEW w \in Workers, DeliverEvent(w) PROVE ConsumerIInv'
    <2>1. Moves(w, IF category = "A" THEN "lock" ELSE "find")
      BY <1>1, <1>t, DeliveryMoves
    <2> QED
      BY <1>1, <2>1
      DEF DeliverEvent, Moves, AttemptLabels, Holding, Does,
          ConsumerIInv, ConsumerTypeOK, OneHolder, FoundStillTrue, CalledFirst
  <1>2. ASSUME NEW w \in Workers, Acquire(w) PROVE ConsumerIInv'
    <2>1. Moves(w, "find")
      BY <1>2, <1>t, StepMoves DEF Acquire, AttemptLabels
    <2> QED
      BY <1>2, <2>1
      DEF Acquire, Moves, AttemptLabels, Holding, Does,
          ConsumerIInv, ConsumerTypeOK, OneHolder, FoundStillTrue, CalledFirst
  <1>3. ASSUME NEW w \in Workers, FindProcessed(w) PROVE ConsumerIInv'
    <2>1. IF processed THEN Moves(w, "idle") ELSE Moves(w, "execute")
      BY <1>3, <1>t, StepMoves, OverMoves DEF FindProcessed, AttemptLabels
    <2>2. CASE processed
      BY <1>3, <2>1, <2>2
      DEF FindProcessed, Moves, AttemptLabels, Holding, Does,
          ConsumerIInv, ConsumerTypeOK, OneHolder, FoundStillTrue, CalledFirst
    <2>3. CASE ~processed
      BY <1>3, <2>1, <2>3
      DEF FindProcessed, Moves, AttemptLabels, Holding, Does,
          ConsumerIInv, ConsumerTypeOK, OneHolder, FoundStillTrue, CalledFirst
    <2> QED
      BY <2>2, <2>3
  <1>4. ASSUME NEW w \in Workers, ExecuteInTx(w) PROVE ConsumerIInv'
    <2>1. Moves(w, "record") \/ Moves(w, "idle")
      BY <1>4, <1>t, StepMoves, OverMoves DEF ExecuteInTx, AttemptLabels
    <2> QED
      BY <1>4, <2>1
      DEF ExecuteInTx, WithinTx, Moves, AttemptLabels, Holding, Does,
          ConsumerIInv, ConsumerTypeOK, OneHolder, FoundStillTrue, CalledFirst
  <1>5. ASSUME NEW w \in Workers, ExecuteOutside(w) PROVE ConsumerIInv'
    <2>1. (Moves(w, "record") /\ keys' = keys \cup {0}) \/ Moves(w, "idle")
      BY <1>5, <1>t, StepMoves, OverMoves DEF ExecuteOutside, AttemptLabels, EventKey
    <2> QED
      BY <1>5, <2>1
      DEF ExecuteOutside, EventKey, Moves, AttemptLabels, Holding, Does,
          ConsumerIInv, ConsumerTypeOK, OneHolder, FoundStillTrue, CalledFirst
  <1>6. ASSUME NEW w \in Workers, Record(w) PROVE ConsumerIInv'
    <2>1. Moves(w, "idle")
      BY <1>6, <1>t, OverMoves DEF Record
    <2>2. CASE UNCHANGED <<processed, succeeded, effects>>
      BY <1>6, <2>1, <2>2
      DEF Record, Moves, AttemptLabels, Holding, Does,
          ConsumerIInv, ConsumerTypeOK, OneHolder, FoundStillTrue, CalledFirst
    <2>3. CASE ~processed /\ processed' /\ category = "A" /\ effects' = effects + 1
      <3>1. \A v \in Workers \ {w} : ~Holding(v)
        BY <1>6, <2>3 DEF Record, Does, Holding, ConsumerIInv, OneHolder
      <3>2. \A v \in Workers : attempt'[v].pc \notin {"find", "execute", "record"}
        BY <2>1, <2>3, <3>1 DEF Moves, Holding
      <3>0. effects = 0 /\ processed' = TRUE /\ succeeded' \in BOOLEAN
        BY <1>6, <1>t, <2>3 DEF Record, ConsumerIInv, ConsumerTypeOK
      <3>3. ConsumerTypeOK' /\ effects' = 1
        BY <1>6, <1>t, <2>1, <2>3, <3>0 DEF Record, Moves, AttemptLabels, ConsumerTypeOK
      <3> QED
        BY <1>6, <2>3, <3>0, <3>2, <3>3
        DEF Record, Holding, Does, ConsumerIInv, OneHolder, FoundStillTrue, CalledFirst
    <2>4. CASE ~processed /\ processed' /\ category = "B" /\ effects' = effects
      BY <1>6, <2>1, <2>4
      DEF Record, Moves, AttemptLabels, Holding, Does,
          ConsumerIInv, ConsumerTypeOK, OneHolder, FoundStillTrue, CalledFirst
    <2> QED
      BY <1>6, <1>t, <2>2, <2>3, <2>4 DEF Record, ConsumerTypeOK
  <1>7. ASSUME NEW w \in Workers, LoseAttempt(w) PROVE ConsumerIInv'
    <2>1. Moves(w, "idle")
      BY <1>7, <1>t, OverMoves DEF LoseAttempt
    <2> QED
      BY <1>7, <2>1
      DEF LoseAttempt, Moves, AttemptLabels, Holding, Does,
          ConsumerIInv, ConsumerTypeOK, OneHolder, FoundStillTrue, CalledFirst
  <1>8. CASE UNCHANGED consumerVars
    BY <1>8
    DEF consumerVars, Holding, Does,
        ConsumerIInv, ConsumerTypeOK, OneHolder, FoundStillTrue, CalledFirst
  <1> QED
    BY <1>1, <1>2, <1>3, <1>4, <1>5, <1>6, <1>7, <1>8 DEF ConsumerNext

\* wrapTransactionalConsumer has its effect exactly once and
\* wrapExternalEffectConsumer calls under one key, for any number of workers and
\* deliveries.
THEOREM ConsumerSpecHandledOnce == ConsumerSpec => []HandledOnce
  <1>1. ConsumerIInv => HandledOnce
    <2> SUFFICES ASSUME ConsumerIInv PROVE Cardinality(keys) <= 1
      BY DEF ConsumerIInv, HandledOnce
    <2>1. keys = {} \/ keys = {0}
      BY DEF ConsumerIInv, ConsumerTypeOK
    <2> QED
      BY <2>1, FS_EmptySet, FS_Singleton
  <1> QED
    BY <1>1, ConsumerInitial, ConsumerStep, PTL DEF ConsumerSpec

-----------------------------------------------------------------------------
(* Memberships: whoever changes a role or a status holds the locks it       *)
(* needs, and what it knows of the rows it locked is still true; so an      *)
(* invitation admits once, and the workspace has its Owner.                 *)

LEMMA MemberInitial == MemberInit => MemberIInv
  <1> SUFFICES ASSUME MemberInit PROVE MemberIInv
    OBVIOUS
  <1>1. \A r \in Requests : req[r].pc = "idle"
    BY DEF MemberInit, Idle
  <1>2. \A i \in Invitations : invitation[i] = NoInvitation
    BY DEF MemberInit
  <1>3. PICK admins \in SUBSET (Users \ {Founder}) :
            member = [u \in Users |-> IF u = Founder THEN Row("Owner", "ACTIVE")
                                      ELSE IF u \in admins THEN Row("Administrator", "ACTIVE")
                                      ELSE NoMember]
    BY DEF MemberInit
  <1>4. /\ member \in [Users -> [role : MemberRoles, status : MemberStatuses]]
        /\ OwnersRole
    BY <1>3 DEF MemberInit, OwnersRole, Row, NoMember, MemberRoles, Assignable, MemberStatuses
  <1>5. MemberTypeOK
    <2>1. invitation \in [Invitations ->
              [status : {"NONE", "PENDING", "EXPIRED", "REVOKED", "ACCEPTED"},
               user : Users, bound : BOOLEAN, role : MemberRoles]]
      BY MembershipAssumption DEF MemberInit, NoInvitation, Closed, MemberRoles
    <2>2. req \in [Requests -> MemberCalls \cup {Idle}]
      BY DEF MemberInit
    <2>3. owner \in Users /\ link \subseteq Users /\ account \in [Users -> AccountStatuses]
      BY MembershipAssumption DEF MemberInit, AccountStatuses
    <2> QED
      BY <1>4, <2>1, <2>2, <2>3 DEF MemberTypeOK
  <1> QED
    BY <1>1, <1>2, <1>4, <1>5
    DEF MemberIInv, InvitedRole, OwnerLocked, AnotherSeen, AdmittedOnce, NoInvitation, Closed, At

\* What a request holds at each of its steps.
LEMMA MemberCallFields ==
    ASSUME MemberTypeOK, NEW r \in Requests
    PROVE  /\ req[r].pc \in {"role", "status", "remove", "transfer"} =>
                  req[r] \in [pc : {"role", "status", "remove", "transfer"}, user : Users, seen : Users]
           /\ req[r].pc = "invite" => req[r] \in [pc : {"invite"}, user : Users, bound : BOOLEAN]
           /\ req[r].pc \in {"revoke", "accept", "join"} =>
                  req[r] \in [pc : {"revoke", "accept", "join"}, row : Invitations]
           /\ req[r].pc = "wait" =>
                  req[r] \in [pc : {"wait"}, row : Invitations, found : AccountStatuses, linked : BOOLEAN]
  BY DEF MemberTypeOK, MemberCalls, Idle

\* The requests that admit somebody.
Admits(c) == c.pc \in {"accept", "join", "wait"}

\* One request moves on. Nobody else takes the invitation or the workspace that
\* a request has locked, and a lock is taken only where there is none.
LEMMA MemberRequestMoves ==
    ASSUME MemberIInv, NEW r \in Requests, NEW c \in MemberCalls \cup {Idle},
           req' = [req EXCEPT ![r] = c],
           Admits(c) => /\ invitation'[c.row].status = "PENDING"
                        /\ \/ Accepting(c.row) = {}
                           \/ Admits(req[r]) /\ req[r].row = c.row,
           \A i \in Invitations : invitation[i].status = "PENDING" /\ Accepting(i) \notin {{}, {r}}
               => invitation'[i].status = "PENDING",
           c.pc = "transfer" => Transferring = {} /\ c.seen = owner /\ c.user # owner,
           owner' = owner \/ At(r, "transfer"),
           c.pc = "transfer" => owner' = owner,
           c.pc \in {"role", "status", "remove"} => c.user # c.seen
    PROVE  AdmittedOnce' /\ OwnerLocked' /\ AnotherSeen'
  <1>1. \A q \in Requests : req'[q] = IF q = r THEN c ELSE req[q]
    BY DEF MemberIInv, MemberTypeOK
  <1>2. AnotherSeen'
    BY <1>1 DEF MemberIInv, AnotherSeen
  <1>3. OwnerLocked'
    <2> SUFFICES ASSUME NEW q \in Requests, req'[q].pc = "transfer"
                 PROVE  /\ req'[q].seen = owner' /\ req'[q].user # owner'
                        /\ \A p \in Requests : req'[p].pc = "transfer" => p = q
      BY DEF OwnerLocked, At, Transferring
    <2>1. \A p \in Requests : req[p].pc = "transfer" => Transferring = {p}
      BY DEF MemberIInv, OwnerLocked, At
    <2>2. CASE q = r
      BY <1>1, <2>2 DEF Transferring, At
    <2>3. CASE q # r
      <3>1. req[q].pc = "transfer" /\ req[q].seen = owner /\ req[q].user # owner
        BY <1>1, <2>3 DEF MemberIInv, OwnerLocked, At
      <3>2. ~At(r, "transfer")
        BY <2>1, <2>3, <3>1 DEF Transferring, At
      <3> QED
        BY <1>1, <2>1, <2>3, <3>1, <3>2 DEF Transferring, At
    <2> QED
      BY <2>2, <2>3
  <1>4. AdmittedOnce'
    <2> SUFFICES ASSUME NEW q \in Requests, Admits(req'[q])
                 PROVE  /\ invitation'[req'[q].row].status = "PENDING"
                        /\ \A p \in Requests : Admits(req'[p]) /\ req'[p].row = req'[q].row => p = q
      BY DEF AdmittedOnce, Accepting, Admits
    <2>1. \A p \in Requests : Admits(req[p]) =>
              invitation[req[p].row].status = "PENDING" /\ Accepting(req[p].row) = {p}
      BY DEF MemberIInv, AdmittedOnce, Admits
    <2>2. \A i, p : p \in Accepting(i) <=> p \in Requests /\ Admits(req[p]) /\ req[p].row = i
      BY DEF Accepting, Admits
    <2>3. CASE q = r
      <3>1. \A p \in Requests : Admits(req[p]) /\ req[p].row = c.row => p = r
        BY <1>1, <2>1, <2>2, <2>3
      <3> QED
        BY <1>1, <2>3, <3>1
    <2>4. CASE q # r
      <3>1. req'[q] = req[q] /\ Admits(req[q]) /\ Accepting(req[q].row) = {q}
            /\ invitation[req[q].row].status = "PENDING"
        BY <1>1, <2>1, <2>4
      <3>2. req[q].row \in Invitations
        BY <3>1, MemberCallFields DEF MemberIInv, Admits
      <3>3. invitation'[req[q].row].status = "PENDING"
        BY <2>4, <3>1, <3>2
      <3>4. \A p \in Requests \ {r} : Admits(req'[p]) /\ req'[p].row = req[q].row => p = q
        BY <1>1, <2>2, <3>1
      <3>5. ~(Admits(c) /\ c.row = req[q].row)
        BY <2>2, <2>4, <3>1
      <3> QED
        BY <1>1, <3>1, <3>3, <3>4, <3>5
    <2> QED
      BY <2>3, <2>4
  <1> QED
    BY <1>2, <1>3, <1>4

LEMMA MemberRequestEnds ==
    ASSUME MemberIInv, NEW r \in Requests, Done(r),
           \A i \in Invitations : invitation[i].status = "PENDING" /\ Accepting(i) \notin {{}, {r}}
               => invitation'[i].status = "PENDING",
           owner' = owner \/ At(r, "transfer")
    PROVE  AdmittedOnce' /\ OwnerLocked' /\ AnotherSeen'
           /\ req' \in [Requests -> MemberCalls \cup {Idle}]
  <1>1. Idle \in MemberCalls \cup {Idle} /\ Idle.pc = "idle" /\ ~Admits(Idle)
        /\ req' = [req EXCEPT ![r] = Idle]
    BY DEF Idle, Admits, Done
  <1>2. req' \in [Requests -> MemberCalls \cup {Idle}]
    BY <1>1 DEF MemberIInv, MemberTypeOK
  <1>3. AdmittedOnce' /\ OwnerLocked' /\ AnotherSeen'
    BY <1>1, MemberRequestMoves
  <1> QED
    BY <1>2, <1>3

\* A request begins, or goes on, and no table is written.
LEMMA MemberReads ==
    ASSUME MemberIInv, NEW r \in Requests, NEW c \in MemberCalls \cup {Idle},
           req' = [req EXCEPT ![r] = c], UNCHANGED memberTables,
           Admits(c) => /\ invitation[c.row].status = "PENDING"
                        /\ \/ Accepting(c.row) = {}
                           \/ Admits(req[r]) /\ req[r].row = c.row,
           c.pc = "transfer" => Transferring = {} /\ c.seen = owner /\ c.user # owner,
           c.pc \in {"role", "status", "remove"} => c.user # c.seen
    PROVE  MemberIInv'
  <1>1. AdmittedOnce' /\ OwnerLocked' /\ AnotherSeen'
    BY MemberRequestMoves DEF memberTables
  <1>2. MemberTypeOK' /\ OwnersRole' /\ InvitedRole'
    BY DEF MemberIInv, MemberTypeOK, OwnersRole, InvitedRole, memberTables
  <1> QED
    BY <1>1, <1>2 DEF MemberIInv

\* Membership rows are written and the request ends.
LEMMA MemberWrites ==
    ASSUME MemberIInv, NEW r \in Requests, Done(r),
           UNCHANGED <<invitation, account, link>>, owner' \in Users,
           owner' = owner \/ At(r, "transfer"),
           member' \in [Users -> [role : MemberRoles, status : MemberStatuses]],
           \A u \in Users : member'[u].role = "Owner" => u = owner'
    PROVE  MemberIInv'
  <1>1. AdmittedOnce' /\ OwnerLocked' /\ AnotherSeen'
        /\ req' \in [Requests -> MemberCalls \cup {Idle}]
    BY MemberRequestEnds
  <1>2. MemberTypeOK' /\ OwnersRole' /\ InvitedRole'
    BY <1>1 DEF MemberIInv, MemberTypeOK, OwnersRole, InvitedRole
  <1> QED
    BY <1>1, <1>2 DEF MemberIInv

-----------------------------------------------------------------------------
LEMMA MemberReadKeeps ==
    ASSUME MemberIInv, NEW r \in Requests, NEW u \in Users,
           NEW label \in {"role", "status", "remove"}, MemberRead(r, u, label)
    PROVE  MemberIInv'
  <1> DEFINE c == [pc |-> label, user |-> u, seen |-> owner]
  <1>1. c \in MemberCalls /\ req' = [req EXCEPT ![r] = c] /\ UNCHANGED memberTables
    BY DEF MemberRead, Begin, MemberCalls, MemberIInv, MemberTypeOK
  <1>2. c.pc \in {"role", "status", "remove"} /\ c.user # c.seen
    BY DEF MemberRead, NotOwner
  <1> HIDE DEF c
  <1> QED
    BY <1>1, <1>2, MemberReads DEF Admits

LEMMA UpdateRoleKeeps ==
    ASSUME MemberIInv, NEW r \in Requests, UpdateRole(r)
    PROVE  MemberIInv'
  <1>1. req[r] \in [pc : {"role", "status", "remove", "transfer"}, user : Users, seen : Users]
        /\ req[r].pc = "role" /\ req[r].user # req[r].seen
    BY MemberCallFields DEF UpdateRole, At, MemberIInv, AnotherSeen
  <1>2. PICK role \in Assignable : member' = [member EXCEPT ![req[r].user].role = role]
    BY DEF UpdateRole
  <1>3. /\ member' \in [Users -> [role : MemberRoles, status : MemberStatuses]]
        /\ \A u \in Users : member'[u].role = "Owner" => u = owner
    BY <1>1, <1>2 DEF MemberIInv, MemberTypeOK, OwnersRole, MemberRoles, Assignable
  <1>4. UNCHANGED <<owner, invitation, account, link>>
    BY DEF UpdateRole
  <1>5. CASE Done(r)
    BY <1>3, <1>4, <1>5, MemberWrites DEF MemberIInv, MemberTypeOK
  <1>6. CASE Goto(r, "status")
    <2> DEFINE c == [req[r] EXCEPT !.pc = "status"]
    <2>1. c \in MemberCalls /\ c.pc = "status" /\ c.user # c.seen
      BY <1>1 DEF MemberCalls
    <2>2. req' = [req EXCEPT ![r] = c]
      BY <1>6 DEF Goto
    <2> HIDE DEF c
    <2>3. AdmittedOnce' /\ OwnerLocked' /\ AnotherSeen'
      BY <1>4, <2>1, <2>2, MemberRequestMoves DEF Admits
    <2>4. MemberTypeOK' /\ OwnersRole' /\ InvitedRole'
      BY <1>3, <1>4, <2>1, <2>2 DEF MemberIInv, MemberTypeOK, OwnersRole, InvitedRole
    <2> QED
      BY <2>3, <2>4 DEF MemberIInv
  <1> QED
    BY <1>5, <1>6 DEF UpdateRole

\* A status is written by id, by updateMember or by remove.
LEMMA StatusWriteKeeps ==
    ASSUME MemberIInv, NEW r \in Requests, UpdateStatus(r) \/ RemoveMember(r)
    PROVE  MemberIInv'
  <1>1. req[r] \in [pc : {"role", "status", "remove", "transfer"}, user : Users, seen : Users]
    BY MemberCallFields DEF UpdateStatus, RemoveMember, At, MemberIInv
  <1>2. PICK s \in MemberStatuses : member' = [member EXCEPT ![req[r].user].status = s]
    BY DEF UpdateStatus, RemoveMember, MemberStatuses
  <1>3. /\ member' \in [Users -> [role : MemberRoles, status : MemberStatuses]]
        /\ \A u \in Users : member'[u].role = "Owner" => u = owner
    BY <1>1, <1>2 DEF MemberIInv, MemberTypeOK, OwnersRole
  <1> QED
    BY <1>3, MemberWrites DEF UpdateStatus, RemoveMember, MemberIInv, MemberTypeOK

LEMMA TransferLockKeeps ==
    ASSUME MemberIInv, NEW r \in Requests, NEW to \in Users, TransferLock(r, to)
    PROVE  MemberIInv'
  <1> DEFINE c == [pc |-> "transfer", user |-> to, seen |-> owner]
  <1>1. c \in MemberCalls /\ req' = [req EXCEPT ![r] = c] /\ UNCHANGED memberTables
    BY DEF TransferLock, Begin, MemberCalls, MemberIInv, MemberTypeOK
  <1>2. c.pc = "transfer" /\ c.seen = owner /\ c.user # owner /\ Transferring = {}
    BY DEF TransferLock
  <1> HIDE DEF c
  <1> QED
    BY <1>1, <1>2, MemberReads DEF Admits

\* The locked owner hands the role over.
LEMMA TransferSwaps ==
    ASSUME MemberIInv, NEW r \in Requests, TransferCommit(r),
           MayTransfer(req[r].seen, req[r].user) /\ OwnersIn(SwapRoles(member, req[r].seen, req[r].user)) = {req[r].user}
    PROVE  /\ req[r].seen = owner /\ req[r].user \in Users /\ req[r].user # owner
           /\ owner' = req[r].user /\ member' = SwapRoles(member, owner, req[r].user)
           /\ member' \in [Users -> [role : MemberRoles, status : MemberStatuses]]
           /\ \A u \in Users : /\ u = owner' => member'[u] = Row("Owner", "ACTIVE")
                               /\ member'[u].role = "Owner" => u = owner'
  <1>1. req[r] \in [pc : {"role", "status", "remove", "transfer"}, user : Users, seen : Users]
        /\ req[r].seen = owner /\ req[r].user # owner
    BY MemberCallFields DEF TransferCommit, At, MemberIInv, OwnerLocked
  <1>2. owner' = req[r].user /\ member' = SwapRoles(member, owner, req[r].user)
    BY <1>1 DEF TransferCommit
  <1>3. member[req[r].user] = Row("Administrator", "ACTIVE")
    BY DEF MayTransfer
  <1>4. member' \in [Users -> [role : MemberRoles, status : MemberStatuses]]
    <2> DEFINE demoted == [member EXCEPT ![owner].role = "Administrator"]
    <2>1. demoted \in [Users -> [role : MemberRoles, status : MemberStatuses]]
      BY DEF MemberIInv, MemberTypeOK, MemberRoles, Assignable
    <2>2. member' = [demoted EXCEPT ![req[r].user].role = "Owner"]
      BY <1>2 DEF SwapRoles
    <2> HIDE DEF demoted
    <2> QED
      BY <1>1, <2>1, <2>2 DEF MemberRoles
  <1>5. \A u \in Users : /\ u = owner' => member'[u] = Row("Owner", "ACTIVE")
                         /\ member'[u].role = "Owner" => u = owner'
    BY <1>1, <1>2, <1>3 DEF SwapRoles, Row, MemberIInv, MemberTypeOK, OwnersRole
  <1> QED
    BY <1>1, <1>2, <1>4, <1>5

LEMMA RefusedKeeps ==
    ASSUME MemberIInv, NEW r \in Requests, Refused(r)
    PROVE  MemberIInv'
  BY MemberWrites DEF Refused, memberTables, MemberIInv, MemberTypeOK, OwnersRole

LEMMA TransferCommitKeeps ==
    ASSUME MemberIInv, NEW r \in Requests, TransferCommit(r)
    PROVE  MemberIInv'
  <1>1. CASE MayTransfer(req[r].seen, req[r].user)
             /\ OwnersIn(SwapRoles(member, req[r].seen, req[r].user)) = {req[r].user}
    <2>1. At(r, "transfer") /\ Done(r) /\ UNCHANGED <<invitation, account, link>>
      BY <1>1 DEF TransferCommit
    <2> QED
      BY <1>1, <2>1, TransferSwaps, MemberWrites
  <1>2. CASE ~(MayTransfer(req[r].seen, req[r].user)
               /\ OwnersIn(SwapRoles(member, req[r].seen, req[r].user)) = {req[r].user})
    BY <1>2, RefusedKeeps DEF TransferCommit
  <1> QED
    BY <1>1, <1>2

LEMMA InviteReadKeeps ==
    ASSUME MemberIInv, NEW r \in Requests, NEW u \in Users, InviteRead(r, u)
    PROVE  MemberIInv'
  <1> DEFINE c == [pc |-> "invite", user |-> u, bound |-> account[u] = "ACTIVE"]
  <1>1. c \in MemberCalls /\ req' = [req EXCEPT ![r] = c] /\ UNCHANGED memberTables
    BY DEF InviteRead, Begin, MemberCalls
  <1>2. c.pc = "invite"
    OBVIOUS
  <1> HIDE DEF c
  <1> QED
    BY <1>1, <1>2, MemberReads DEF Admits

LEMMA InviteKeeps ==
    ASSUME MemberIInv, NEW r \in Requests, Invite(r)
    PROVE  MemberIInv'
  <1> DEFINE u == req[r].user
  <1>1. req[r] \in [pc : {"invite"}, user : Users, bound : BOOLEAN]
    BY MemberCallFields DEF Invite, At, MemberIInv
  <1>2. PICK new \in Invitations, role \in Assignable :
              /\ \A i \in Invitations : invitation[i].status = "NONE" <=> i >= new
              /\ invitation' = [i \in Invitations |->
                    IF i = new THEN [status |-> "PENDING", user |-> u, bound |-> req[r].bound, role |-> role]
                    ELSE IF i \in PendingFor(u) THEN Closed("EXPIRED")
                    ELSE invitation[i]]
    BY DEF Invite
  <1>3. /\ Done(r) /\ UNCHANGED <<owner, member, account, link>>
        /\ \A i \in PendingFor(u) : Accepting(i) = {}
    BY DEF Invite
  <1>4. /\ invitation' \in [Invitations ->
           [status : {"NONE", "PENDING", "EXPIRED", "REVOKED", "ACCEPTED"},
            user : Users, bound : BOOLEAN, role : MemberRoles]]
        /\ InvitedRole'
    BY <1>1, <1>2, MembershipAssumption
    DEF MemberIInv, MemberTypeOK, InvitedRole, Closed, MemberRoles
  <1>5. \A i \in Invitations : invitation[i].status = "PENDING" /\ Accepting(i) # {}
            => invitation'[i].status = "PENDING"
    BY <1>2, <1>3
  <1>6. AdmittedOnce' /\ OwnerLocked' /\ AnotherSeen'
        /\ req' \in [Requests -> MemberCalls \cup {Idle}]
    BY <1>3, <1>5, MemberRequestEnds
  <1> QED
    BY <1>3, <1>4, <1>6 DEF MemberIInv, MemberTypeOK, OwnersRole

LEMMA RevokeReadKeeps ==
    ASSUME MemberIInv, NEW r \in Requests, NEW i \in Invitations, RevokeRead(r, i)
    PROVE  MemberIInv'
  <1> DEFINE c == [pc |-> "revoke", row |-> i]
  <1>1. c \in MemberCalls /\ req' = [req EXCEPT ![r] = c] /\ UNCHANGED memberTables
    BY DEF RevokeRead, Begin, MemberCalls
  <1>2. c.pc = "revoke"
    OBVIOUS
  <1> HIDE DEF c
  <1> QED
    BY <1>1, <1>2, MemberReads DEF Admits

\* A row of invitations is closed by a request that ends.
LEMMA CloseInvitation ==
    ASSUME MemberIInv, NEW r \in Requests, NEW i \in Invitations,
           NEW st \in {"REVOKED", "ACCEPTED"}, Accepting(i) \in {{}, {r}},
           invitation' = [invitation EXCEPT ![i] = Closed(st)], Done(r), UNCHANGED owner
    PROVE  /\ AdmittedOnce' /\ OwnerLocked' /\ AnotherSeen' /\ InvitedRole'
           /\ req' \in [Requests -> MemberCalls \cup {Idle}]
           /\ invitation' \in [Invitations ->
                  [status : {"NONE", "PENDING", "EXPIRED", "REVOKED", "ACCEPTED"},
                   user : Users, bound : BOOLEAN, role : MemberRoles]]
  <1>1. \A k \in Invitations : invitation[k].status = "PENDING" /\ Accepting(k) \notin {{}, {r}}
            => invitation'[k].status = "PENDING"
    BY DEF MemberIInv, MemberTypeOK
  <1>2. AdmittedOnce' /\ OwnerLocked' /\ AnotherSeen'
        /\ req' \in [Requests -> MemberCalls \cup {Idle}]
    BY <1>1, MemberRequestEnds
  <1>3. /\ InvitedRole'
        /\ invitation' \in [Invitations ->
                  [status : {"NONE", "PENDING", "EXPIRED", "REVOKED", "ACCEPTED"},
                   user : Users, bound : BOOLEAN, role : MemberRoles]]
    BY MembershipAssumption DEF MemberIInv, MemberTypeOK, InvitedRole, Closed, MemberRoles
  <1> QED
    BY <1>2, <1>3

LEMMA RevokeKeeps ==
    ASSUME MemberIInv, NEW r \in Requests, Revoke(r)
    PROVE  MemberIInv'
  <1>1. req[r].row \in Invitations
    BY MemberCallFields DEF Revoke, At, MemberIInv
  <1>2. /\ Accepting(req[r].row) = {} /\ Done(r) /\ UNCHANGED <<owner, member, account, link>>
        /\ invitation' = [invitation EXCEPT ![req[r].row] = Closed("REVOKED")]
    BY DEF Revoke
  <1> QED
    BY <1>1, <1>2, CloseInvitation DEF MemberIInv, MemberTypeOK, OwnersRole

LEMMA AcceptLockKeeps ==
    ASSUME MemberIInv, NEW r \in Requests, NEW i \in Invitations, AcceptLock(r, i)
    PROVE  MemberIInv'
  <1> DEFINE c == [pc |-> "accept", row |-> i]
  <1>1. c \in MemberCalls /\ req' = [req EXCEPT ![r] = c] /\ UNCHANGED memberTables
    BY DEF AcceptLock, Begin, MemberCalls
  <1>2. c.pc = "accept" /\ c.row = i /\ invitation[i].status = "PENDING" /\ Accepting(i) = {}
    BY DEF AcceptLock, RowLock
  <1> HIDE DEF c
  <1> QED
    BY <1>1, <1>2, MemberReads DEF Admits

LEMMA AcceptBranchKeeps ==
    ASSUME MemberIInv, NEW r \in Requests, AcceptBranch(r)
    PROVE  MemberIInv'
  <1> DEFINE u == invitation[req[r].row].user
  <1>1. /\ req[r] \in [pc : {"revoke", "accept", "join"}, row : Invitations] /\ Admits(req[r])
        /\ invitation[req[r].row].status = "PENDING" /\ UNCHANGED memberTables
    BY MemberCallFields DEF AcceptBranch, At, MemberIInv, AdmittedOnce, Admits
  <1>2. u \in Users
    BY <1>1 DEF MemberIInv, MemberTypeOK
  <1>3. CASE Goto(r, "join")
    <2> DEFINE c == [req[r] EXCEPT !.pc = "join"]
    <2>1. c \in MemberCalls /\ c.pc = "join" /\ c.row = req[r].row
      BY <1>1 DEF MemberCalls
    <2>2. req' = [req EXCEPT ![r] = c]
      BY <1>3 DEF Goto
    <2> HIDE DEF c
    <2> QED
      BY <1>1, <2>1, <2>2, MemberReads
  <1>4. CASE req' = [req EXCEPT ![r] = [pc |-> "wait", row |-> req[r].row,
                                        found |-> account[u], linked |-> u \in link]]
    <2> DEFINE c == [pc |-> "wait", row |-> req[r].row, found |-> account[u], linked |-> u \in link]
    <2>1. c \in MemberCalls /\ c.pc = "wait" /\ c.row = req[r].row
      BY <1>1, <1>2 DEF MemberCalls, MemberIInv, MemberTypeOK
    <2>2. req' = [req EXCEPT ![r] = c]
      BY <1>4
    <2> HIDE DEF c
    <2> QED
      BY <1>1, <2>1, <2>2, MemberReads
  <1> QED
    BY <1>3, <1>4 DEF AcceptBranch

LEMMA JoinKeeps ==
    ASSUME MemberIInv, NEW r \in Requests, Join(r)
    PROVE  MemberIInv'
  <1> DEFINE i == req[r].row
  <1>1. /\ i \in Invitations /\ Accepting(i) = {r} /\ invitation[i].status = "PENDING"
    BY MemberCallFields DEF Join, At, MemberIInv, AdmittedOnce
  <1>2. /\ Done(r) /\ UNCHANGED <<owner, account, link>>
        /\ invitation' = [invitation EXCEPT ![i] = Closed("ACCEPTED")]
        /\ member' = [member EXCEPT ![invitation[i].user] = Row(invitation[i].role, "ACTIVE")]
    BY DEF Join
  <1>3. invitation[i].user \in Users /\ invitation[i].role \in Assignable
    BY <1>1 DEF MemberIInv, MemberTypeOK, InvitedRole
  <1>4. member' \in [Users -> [role : MemberRoles, status : MemberStatuses]] /\ OwnersRole'
    BY <1>2, <1>3 DEF MemberIInv, MemberTypeOK, OwnersRole, Row, MemberRoles, Assignable, MemberStatuses
  <1>5. /\ AdmittedOnce' /\ OwnerLocked' /\ AnotherSeen' /\ InvitedRole'
        /\ req' \in [Requests -> MemberCalls \cup {Idle}]
        /\ invitation' \in [Invitations ->
                  [status : {"NONE", "PENDING", "EXPIRED", "REVOKED", "ACCEPTED"},
                   user : Users, bound : BOOLEAN, role : MemberRoles]]
    BY <1>1, <1>2, CloseInvitation
  <1> QED
    BY <1>2, <1>4, <1>5 DEF MemberIInv, MemberTypeOK

LEMMA AwaitActivationKeeps ==
    ASSUME MemberIInv, NEW r \in Requests, AwaitActivation(r)
    PROVE  MemberIInv'
  <1> DEFINE i == req[r].row
             u == invitation[i].user
  <1>1. /\ i \in Invitations /\ Accepting(i) = {r} /\ invitation[i].status = "PENDING"
    BY MemberCallFields DEF AwaitActivation, At, MemberIInv, AdmittedOnce
  <1>2. CASE ~Insertable(r, u)
    BY <1>2, RefusedKeeps DEF AwaitActivation
  <1>3. CASE Insertable(r, u)
    <2>1. /\ Done(r) /\ UNCHANGED owner
          /\ invitation' = [invitation EXCEPT ![i] = Closed("ACCEPTED")]
          /\ member' = [member EXCEPT ![u] = Row(invitation[i].role, "PENDING_ACTIVATION")]
          /\ account' = [account EXCEPT ![u] = IF @ = "NONE" THEN "PENDING" ELSE @]
          /\ link' \in {link, link \cup {u}}
      BY <1>3 DEF AwaitActivation
    <2>2. u \in Users /\ invitation[i].role \in Assignable
      BY <1>1 DEF MemberIInv, MemberTypeOK, InvitedRole
    <2>3. member' \in [Users -> [role : MemberRoles, status : MemberStatuses]] /\ OwnersRole'
      BY <2>1, <2>2 DEF MemberIInv, MemberTypeOK, OwnersRole, Row, MemberRoles, Assignable, MemberStatuses
    <2>4. account' \in [Users -> AccountStatuses] /\ link' \subseteq Users /\ owner' \in Users
      BY <2>1, <2>2 DEF MemberIInv, MemberTypeOK, AccountStatuses
    <2>5. /\ AdmittedOnce' /\ OwnerLocked' /\ AnotherSeen' /\ InvitedRole'
          /\ req' \in [Requests -> MemberCalls \cup {Idle}]
          /\ invitation' \in [Invitations ->
                  [status : {"NONE", "PENDING", "EXPIRED", "REVOKED", "ACCEPTED"},
                   user : Users, bound : BOOLEAN, role : MemberRoles]]
      BY <1>1, <2>1, CloseInvitation
    <2> QED
      BY <2>3, <2>4, <2>5 DEF MemberIInv, MemberTypeOK
  <1> QED
    BY <1>2, <1>3

\* resendActivation and resetPassword: no request of those above is involved.
LEMMA ActivationKeeps ==
    ASSUME MemberIInv, NEW u \in Users, ResendActivation(u) \/ Activate(u)
    PROVE  MemberIInv'
  <1>1. UNCHANGED <<owner, invitation, req>>
    BY DEF ResendActivation, Activate
  <1>2. /\ member' \in [Users -> [role : MemberRoles, status : MemberStatuses]] /\ OwnersRole'
        /\ account' \in [Users -> AccountStatuses] /\ link' \subseteq Users
    <2>1. CASE ResendActivation(u)
      BY <2>1 DEF ResendActivation, MemberIInv, MemberTypeOK, OwnersRole
    <2>2. CASE Activate(u)
      BY <2>2 DEF Activate, MemberIInv, MemberTypeOK, OwnersRole, MemberStatuses, AccountStatuses
    <2> QED
      BY <2>1, <2>2
  <1> QED
    BY <1>1, <1>2
    DEF MemberIInv, MemberTypeOK, InvitedRole, OwnerLocked, AnotherSeen, AdmittedOnce,
        At, Transferring, Accepting

LEMMA MemberStep == MemberIInv /\ [MemberNext]_memberVars => MemberIInv'
  <1> SUFFICES ASSUME MemberIInv, [MemberNext]_memberVars PROVE MemberIInv'
    OBVIOUS
  <1>1. ASSUME NEW r \in Requests, NEW u \in Users,
               UpdateMemberRead(r, u) \/ RemoveMemberRead(r, u) \/ LeaveRead(r, u)
        PROVE  MemberIInv'
    BY <1>1, MemberReadKeeps DEF UpdateMemberRead, RemoveMemberRead, LeaveRead
  <1>2. ASSUME NEW r \in Requests, MemberAbort(r) PROVE MemberIInv'
    BY <1>2, RefusedKeeps DEF MemberAbort
  <1>3. CASE UNCHANGED memberVars
    BY <1>3
    DEF memberVars, memberTables, MemberIInv, MemberTypeOK, OwnersRole, InvitedRole, OwnerLocked,
        AnotherSeen, AdmittedOnce, At, Transferring, Accepting
  <1> QED
    BY <1>1, <1>2, <1>3, UpdateRoleKeeps, StatusWriteKeeps, TransferLockKeeps, TransferCommitKeeps,
       InviteReadKeeps, InviteKeeps, RevokeReadKeeps, RevokeKeeps, AcceptLockKeeps,
       AcceptBranchKeeps, JoinKeeps, AwaitActivationKeeps, ActivationKeeps
    DEF MemberNext

\* InvitationsService.accept: an invitation admits once, for any number of users,
\* invitations and requests.
THEOREM MemberSpecAdmittedOnce == MemberSpec => []AdmittedOnce
  <1>1. MemberIInv => AdmittedOnce
    BY DEF MemberIInv
  <1> QED
    BY <1>1, MemberInitial, MemberStep, PTL DEF MemberSpec

-----------------------------------------------------------------------------
\* Who demotes, suspends or removes the owner.
LEMMA OwnerStepStands ==
    ASSUME MemberIInv, MemberIInv', MemberNext
    PROVE  /\ \A u \in Users : member'[u].role = "Owner" => u = owner'
           /\ member[owner] = Row("Owner", "ACTIVE") /\ member'[owner'] # Row("Owner", "ACTIVE")
                => \E r \in Requests : req'[r] # req[r] /\ TookBack(r)
  <1>1. \A u \in Users : member'[u].role = "Owner" => u = owner'
    BY DEF MemberIInv, OwnersRole
  <1>2. SUFFICES ASSUME member[owner] = Row("Owner", "ACTIVE"), member'[owner'] # Row("Owner", "ACTIVE")
                 PROVE  \E r \in Requests : req'[r] # req[r] /\ TookBack(r)
    BY <1>1
  <1>3. owner \in Users
    BY DEF MemberIInv, MemberTypeOK
  <1>4. ASSUME NEW r \in Requests, UpdateRole(r) \/ UpdateStatus(r) \/ RemoveMember(r)
        PROVE  req'[r] # req[r] /\ TookBack(r)
    <2>1. req[r] \in [pc : {"role", "status", "remove", "transfer"}, user : Users, seen : Users]
          /\ req[r].pc \in {"role", "status", "remove"} /\ req[r].user # req[r].seen
      BY <1>4, MemberCallFields DEF UpdateRole, UpdateStatus, RemoveMember, At, MemberIInv, AnotherSeen
    <2>2. req[r].user = owner
      BY <1>2, <1>3, <1>4, <2>1 DEF UpdateRole, UpdateStatus, RemoveMember, MemberIInv, MemberTypeOK
    <2>3. req'[r].pc # req[r].pc
      BY <1>4, <2>1
      DEF UpdateRole, UpdateStatus, RemoveMember, At, Done, Goto, Idle, MemberIInv, MemberTypeOK
    <2> QED
      BY <2>1, <2>2, <2>3 DEF TookBack
  <1>5. ASSUME NEW r \in Requests, TransferCommit(r) PROVE FALSE
    <2>1. CASE MayTransfer(req[r].seen, req[r].user)
               /\ OwnersIn(SwapRoles(member, req[r].seen, req[r].user)) = {req[r].user}
      BY <1>2, <1>5, <2>1, TransferSwaps
    <2>2. CASE ~(MayTransfer(req[r].seen, req[r].user)
                 /\ OwnersIn(SwapRoles(member, req[r].seen, req[r].user)) = {req[r].user})
      BY <1>2, <1>5, <2>2 DEF TransferCommit, Refused, memberTables
    <2> QED
      BY <2>1, <2>2
  <1>6. ASSUME NEW r \in Requests, Join(r) PROVE req'[r] # req[r] /\ TookBack(r)
    <2>1. invitation[req[r].row].user = owner
      BY <1>2, <1>3, <1>6 DEF Join, MemberIInv, MemberTypeOK
    <2>2. At(r, "join") /\ req'[r].pc = "idle"
      BY <1>6 DEF Join, Done, Idle, MemberIInv, MemberTypeOK
    <2> QED
      BY <2>1, <2>2 DEF TookBack, At
  <1>7. ASSUME NEW r \in Requests, AwaitActivation(r) PROVE FALSE
    <2>1. CASE Refused(r)
      BY <1>2, <2>1 DEF Refused, memberTables
    <2>2. CASE Insertable(r, invitation[req[r].row].user) /\ UNCHANGED owner
               /\ member' = [member EXCEPT ![invitation[req[r].row].user] =
                                 Row(invitation[req[r].row].role, "PENDING_ACTIVATION")]
      <3>1. member[owner].status = "ACTIVE" /\ member[invitation[req[r].row].user].status = "NONE"
        BY <1>2, <2>2 DEF Row, Insertable
      <3> QED
        BY <1>2, <1>3, <2>2, <3>1 DEF MemberIInv, MemberTypeOK
    <2> QED
      BY <1>7, <2>1, <2>2 DEF AwaitActivation
  <1>8. ASSUME NEW u \in Users, Activate(u) PROVE FALSE
    <2>1. member[owner].status = "ACTIVE" /\ owner' = owner
      BY <1>2, <1>8 DEF Row, Activate
    <2> QED
      BY <1>2, <1>3, <1>8, <2>1 DEF Activate, MemberIInv, MemberTypeOK
  <1>9. ASSUME NEW r \in Requests,
               \/ Invite(r) \/ Revoke(r) \/ AcceptBranch(r) \/ MemberAbort(r)
               \/ \E u \in Users : \/ UpdateMemberRead(r, u) \/ RemoveMemberRead(r, u) \/ LeaveRead(r, u)
                                   \/ TransferLock(r, u) \/ InviteRead(r, u)
               \/ \E i \in Invitations : RevokeRead(r, i) \/ AcceptLock(r, i)
        PROVE  FALSE
    BY <1>2, <1>9
    DEF Invite, Revoke, AcceptBranch, MemberAbort, Refused, UpdateMemberRead, RemoveMemberRead,
        LeaveRead, MemberRead, TransferLock, InviteRead, RevokeRead, AcceptLock, memberTables
  <1>10. ASSUME NEW u \in Users, ResendActivation(u) PROVE FALSE
    BY <1>2, <1>10 DEF ResendActivation
  <1> QED
    BY <1>4, <1>5, <1>6, <1>7, <1>8, <1>9, <1>10 DEF MemberNext

\* transferOwnership's post-condition survives every request but those that had
\* read another owner, and the owner's own acceptance of an old invitation.
THEOREM MemberSpecOwnerStands == MemberSpec => OwnerStands
  <1>1. ASSUME MemberIInv, [MemberNext]_memberVars
        PROVE  [ /\ \A u \in Users : member'[u].role = "Owner" => u = owner'
                 /\ member[owner] = Row("Owner", "ACTIVE") /\ member'[owner'] # Row("Owner", "ACTIVE")
                       => \E r \in Requests : req'[r] # req[r] /\ TookBack(r) ]_memberVars
    BY <1>1, MemberStep, OwnerStepStands
  <1> QED
    BY <1>1, MemberInitial, MemberStep, PTL DEF MemberSpec, OwnerStands

-----------------------------------------------------------------------------
(* ChannelProviders: whoever creates an object on the channel is alone with *)
(* the target, and an object that can be shown is the saved one; so at most *)
(* one content is shown.                                                    *)

\* Nothing is there, and nobody executes.
LEMMA ProviderInitial == ProviderInit => ProviderIInv
  <1> SUFFICES ASSUME ProviderInit PROVE ProviderIInv
    OBVIOUS
  <1>1. \A h \in Handlers : exec[h].pc = "idle"
    BY DEF ProviderInit, Resting
  <1>2. saved = 0 /\ objects = <<>> /\ contents = 0 /\ DOMAIN objects = {} /\ Len(objects) = 0
    BY DEF ProviderInit
  <1>3. ProviderTypeOK
    <2>1. exec \in [Handlers -> ExecType]
      BY DEF ProviderInit, Resting, ExecType
    <2>2. objects \in Seq(ObjectStates) /\ saved \in 0..Len(objects)
      BY <1>2
    <2>3. channel \in Channels /\ contents \in Nat /\ excuse \in BOOLEAN
      BY DEF ProviderInit
    <2> QED
      BY <2>1, <2>2, <2>3 DEF ProviderTypeOK
  <1> QED
    BY <1>1, <1>2, <1>3
    DEF ProviderIInv, ObjectsThere, OwnSteps, OneCreating, WorksOnSaved, ShownIsSaved,
        WorksOn, Running, IsCreating

\* What the types say of the objects and of one execution.
LEMMA ProviderFields ==
    ASSUME ProviderTypeOK
    PROVE  /\ Len(objects) \in Nat /\ DOMAIN objects = 1..Len(objects)
           /\ \A k \in DOMAIN objects : objects[k] \in ObjectStates
           /\ saved \in Nat /\ (saved # 0 => saved \in DOMAIN objects)
           /\ \A h \in Handlers : /\ exec[h] \in ExecType /\ exec[h].object \in Nat
                                  /\ exec[h].fresh \in BOOLEAN
           /\ contents \in Nat
  <1>1. objects \in Seq(ObjectStates)
    BY DEF ProviderTypeOK
  <1>2. Len(objects) \in Nat /\ DOMAIN objects = 1..Len(objects)
        /\ \A k \in DOMAIN objects : objects[k] \in ObjectStates
    <2> HIDE DEF ObjectStates
    <2> QED
      BY <1>1
  <1> QED
    BY <1>2 DEF ProviderTypeOK, ExecType

\* Who else creates: one handler alone has moved.
LEMMA CreatingMoves ==
    ASSUME NEW h \in Handlers, \A g \in Handlers \ {h} : exec'[g] = exec[g]
    PROVE  /\ Creating(h)' <=> Creating(h)
           /\ \A g \in Handlers : Creating(g) <=> \E i \in Handlers \ {g} : IsCreating(i)
           /\ ~IsCreating(h)' =>
                  \A g \in Handlers : g # h /\ ~Creating(g) => ~Creating(g)'
           /\ IsCreating(h) => \A g \in Handlers : g # h => Creating(g)
  BY DEF Creating, IsCreating

\* An execution takes a step of its own, by which nothing is saved or shown.
LEMMA ExecutionMoves ==
    ASSUME ProviderIInv, NEW h \in Handlers, NEW c \in ExecType, exec' = [exec EXCEPT ![h] = c],
           UNCHANGED <<channel, saved, objects, contents>>, excuse' \in BOOLEAN, excuse => excuse',
           IF channel = "WORDPRESS"
           THEN c.pc \notin {"create", "save", "ask", "upload", "publish"}
           ELSE c.pc \notin {"lookup", "post"},
           c.pc \in {"ask", "upload", "publish", "save"} => c.object \in DOMAIN objects,
           ~excuse' /\ c.pc \in {"ask", "upload", "publish"} =>
               c.object = saved \/ objects[c.object] = "gone",
           ~excuse' /\ c.pc \in {"create", "save", "post"} =>
               \/ IsCreating(h)
               \/ ~Creating(h) /\ contents = 0 /\ (saved = 0 \/ objects[saved] = "gone")
    PROVE  ProviderIInv'
  <1>1. \A g \in Handlers : exec'[g] = IF g = h THEN c ELSE exec[g]
    BY DEF ProviderIInv, ProviderTypeOK
  <1>2. ProviderTypeOK'
    BY DEF ProviderIInv, ProviderTypeOK
  <1>3. ObjectsThere' /\ OwnSteps'
    <2>1. ObjectsThere'
      BY <1>1 DEF ProviderIInv, ObjectsThere, WorksOn, Running
    <2>2. OwnSteps'
      BY <1>1 DEF ProviderIInv, OwnSteps, WorksOn
    <2> QED
      BY <2>1, <2>2
  <1>4. ASSUME ~excuse' PROVE (OneCreating /\ WorksOnSaved /\ ShownIsSaved)'
    <2>1. ~excuse /\ OneCreating /\ WorksOnSaved /\ ShownIsSaved
      BY <1>4 DEF ProviderIInv
    <2>2. ShownIsSaved'
      BY <2>1 DEF ShownIsSaved
    <2>3. WorksOnSaved'
      BY <1>1, <1>4, <2>1 DEF WorksOnSaved, WorksOn
    <2>4. OneCreating'
      <3> SUFFICES ASSUME NEW g \in Handlers, IsCreating(g)'
                   PROVE  ~Creating(g)' /\ contents = 0 /\ (saved = 0 \/ objects[saved] = "gone")
        BY DEF OneCreating
      <3>m. \A i \in Handlers \ {h} : exec'[i] = exec[i]
        BY <1>1
      <3>c. IsCreating(h) => ~Creating(h) /\ contents = 0 /\ (saved = 0 \/ objects[saved] = "gone")
        BY <2>1 DEF OneCreating
      <3>1. CASE g = h
        <4>1. ~Creating(h) /\ contents = 0 /\ (saved = 0 \/ objects[saved] = "gone")
          BY <1>1, <1>4, <3>1, <3>c DEF IsCreating
        <4> QED
          BY <3>1, <3>m, <4>1, CreatingMoves
      <3>2. CASE g # h
        <4>1. IsCreating(g) /\ ~Creating(g) /\ contents = 0 /\ (saved = 0 \/ objects[saved] = "gone")
          BY <1>1, <2>1, <3>2 DEF OneCreating, IsCreating
        <4>2. Creating(h) /\ ~IsCreating(h)
          BY <3>2, <4>1 DEF Creating, IsCreating
        <4>3. ~IsCreating(h)'
          BY <1>1, <1>4, <4>2 DEF IsCreating
        <4> QED
          BY <3>2, <3>m, <4>1, <4>3, CreatingMoves
      <3> QED
        BY <3>1, <3>2
    <2> QED
      BY <2>2, <2>3, <2>4
  <1> QED
    BY <1>2, <1>3, <1>4 DEF ProviderIInv

\* What throws or returns has nothing in hand.
LEMMA ThrowsOrReturns ==
    ASSUME NEW h \in Handlers, Throws(h) \/ Returns(h)
    PROVE  \E c \in ExecType : exec' = [exec EXCEPT ![h] = c] /\ c.pc \in {"failed", "done"}
  <1> DEFINE thrown == [Resting EXCEPT !.pc = "failed"]
             back   == [Resting EXCEPT !.pc = "done"]
  <1>1. /\ thrown \in ExecType /\ thrown.pc = "failed"
        /\ back \in ExecType /\ back.pc = "done"
    BY DEF Resting, ExecType
  <1>2. exec' = [exec EXCEPT ![h] = thrown] \/ exec' = [exec EXCEPT ![h] = back]
    BY DEF Throws, Returns
  <1> HIDE DEF thrown, back
  <1> QED
    BY <1>1, <1>2

\* An execution that throws or returns is over but for the status.
LEMMA ExecutionRests ==
    ASSUME ProviderIInv, NEW h \in Handlers, UNCHANGED <<channel, saved, objects, contents>>,
           excuse' \in BOOLEAN, excuse => excuse',
           Throws(h) \/ Returns(h) \/ exec' = [exec EXCEPT ![h] = Resting]
    PROVE  ProviderIInv'
  <1>1. Resting \in ExecType /\ Resting.pc = "idle"
    BY DEF Resting, ExecType
  <1>2. PICK c \in ExecType : exec' = [exec EXCEPT ![h] = c] /\ c.pc \in {"failed", "done", "idle"}
    BY <1>1, ThrowsOrReturns
  <1> QED
    BY <1>2, ExecutionMoves

\* An object changes, not one that content came of, and not into one such.
LEMMA ObjectMoves ==
    ASSUME ProviderIInv, NEW k \in Nat, NEW state \in ObjectStates,
           k \in DOMAIN objects => objects[k] \notin {"gone", "done", "published"},
           state \notin {"done", "published"},
           objects' = [objects EXCEPT ![k] = state],
           UNCHANGED <<channel, saved, contents, excuse>>, exec' \in [Handlers -> ExecType],
           \A g \in Handlers : \/ exec'[g] = exec[g]
                               \/ exec'[g].pc = "failed"
                               \/ /\ WorksOn(g) /\ exec'[g].pc = "ask"
                                  /\ exec'[g].object = exec[g].object
    PROVE  ProviderIInv'
  <1>t. ProviderTypeOK
    BY DEF ProviderIInv
  <1>1. /\ objects' \in Seq(ObjectStates) /\ DOMAIN objects' = DOMAIN objects
        /\ Len(objects') = Len(objects)
        /\ \A i \in DOMAIN objects : objects'[i] = IF i = k THEN state ELSE objects[i]
    <2> HIDE DEF ObjectStates
    <2>1. objects \in Seq(ObjectStates)
      BY <1>t DEF ProviderTypeOK
    <2>2. CASE k \in DOMAIN objects
      BY <2>1, <2>2
    <2>3. CASE k \notin DOMAIN objects
      <3>1. objects' = objects
        BY <2>1, <2>3
      <3> QED
        BY <2>1, <2>3, <3>1
    <2> QED
      BY <2>2, <2>3
  <1>2. ProviderTypeOK'
    BY <1>t, <1>1 DEF ProviderTypeOK
  <1>w. \A g \in Handlers :
            /\ WorksOn(g)' => WorksOn(g) /\ exec'[g].object = exec[g].object
            /\ ~WorksOn(g)' => exec'[g] = exec[g] \/ exec'[g].pc = "failed"
    BY DEF WorksOn
  <1>3. ObjectsThere' /\ OwnSteps'
    <2>1. ObjectsThere'
      BY <1>1, <1>w DEF ProviderIInv, ObjectsThere, WorksOn, Running
    <2>2. OwnSteps'
      BY <1>w DEF ProviderIInv, OwnSteps, WorksOn
    <2> QED
      BY <2>1, <2>2
  <1>4. ASSUME ~excuse PROVE (OneCreating /\ WorksOnSaved /\ ShownIsSaved)'
    <2>1. OneCreating /\ WorksOnSaved /\ ShownIsSaved /\ ObjectsThere
      BY <1>4 DEF ProviderIInv
    <2>2. \A i \in DOMAIN objects : objects[i] = "gone" => objects'[i] = "gone"
      BY <1>1
    <2>3. saved # 0 => saved \in DOMAIN objects
      BY <1>t, ProviderFields
    <2>4. OneCreating'
      <3>1. \A g \in Handlers : IsCreating(g)' => IsCreating(g)
        BY <1>w DEF IsCreating, WorksOn
      <3>2. \A g \in Handlers : Creating(g)' => Creating(g)
        BY <3>1 DEF Creating, IsCreating
      <3> QED
        BY <2>1, <2>2, <2>3, <3>1, <3>2 DEF OneCreating
    <2>5. WorksOnSaved'
      <3>1. \A g \in Handlers : WorksOn(g) => exec[g].object \in DOMAIN objects
        BY <2>1 DEF ObjectsThere
      <3> QED
        BY <1>w, <2>1, <2>2, <3>1 DEF WorksOnSaved
    <2>6. ShownIsSaved'
      BY <1>1, <2>1, <2>3 DEF ShownIsSaved
    <2> QED
      BY <2>4, <2>5, <2>6
  <1> QED
    BY <1>2, <1>3, <1>4 DEF ProviderIInv

\* The object that an execution works on becomes content, the first there is.
LEMMA ObjectIsShown ==
    ASSUME ProviderIInv, NEW h \in Handlers, WorksOn(h), channel # "WORDPRESS",
           Object(h) \in {"open", "finished"}, NEW state \in {"done", "published"},
           Become(h, state), contents' = contents + 1, Returns(h) \/ Throws(h),
           UNCHANGED <<channel, saved, excuse>>
    PROVE  ProviderIInv'
  <1> PICK k : k = exec[h].object
    OBVIOUS
  <1>t. ProviderTypeOK /\ ObjectsThere /\ OwnSteps
    BY DEF ProviderIInv
  <1> PICK c \in ExecType : exec' = [exec EXCEPT ![h] = c] /\ c.pc \in {"failed", "done"}
    BY ThrowsOrReturns
  <1>e. \A g \in Handlers : exec'[g] = IF g = h THEN c ELSE exec[g]
    BY <1>t DEF ProviderTypeOK
  <1>k. k \in DOMAIN objects /\ objects[k] \in {"open", "finished"}
    BY <1>t DEF ObjectsThere, Object
  <1>1. /\ objects' \in Seq(ObjectStates) /\ DOMAIN objects' = DOMAIN objects
        /\ Len(objects') = Len(objects) /\ objects'[k] = state
        /\ \A i \in DOMAIN objects : i # k => objects'[i] = objects[i]
    <2>1. objects \in Seq(ObjectStates) /\ state \in ObjectStates
      BY <1>t DEF ProviderTypeOK, ObjectStates
    <2>2. objects' = [objects EXCEPT ![k] = state]
      BY DEF Become
    <2> HIDE DEF ObjectStates
    <2> QED
      BY <1>k, <2>1, <2>2
  <1>2. ProviderTypeOK'
    BY <1>t, <1>1 DEF ProviderTypeOK
  <1>3. ObjectsThere' /\ OwnSteps'
    BY <1>t, <1>1, <1>e DEF ObjectsThere, OwnSteps, WorksOn, Running
  <1>4. ASSUME ~excuse PROVE (OneCreating /\ WorksOnSaved /\ ShownIsSaved)'
    <2>1. OneCreating /\ WorksOnSaved /\ ShownIsSaved
      BY <1>4 DEF ProviderIInv
    <2>2. k = saved
      BY <1>k, <2>1 DEF WorksOnSaved
    <2>3. saved # 0 /\ contents \in Nat
      BY <1>t, <1>k, <2>2, ProviderFields
    <2>4. contents = 0
      BY <1>k, <2>1, <2>2, <2>3 DEF ShownIsSaved
    <2>5. \A g \in Handlers : ~IsCreating(g)
      BY <1>k, <2>1, <2>2, <2>3 DEF OneCreating
    <2>6. OneCreating'
      BY <1>e, <2>5 DEF OneCreating, IsCreating
    <2>7. WorksOnSaved'
      BY <1>t, <1>1, <1>e, <1>k, <2>1, <2>2 DEF WorksOnSaved, WorksOn, ObjectsThere
    <2>8. ShownIsSaved'
      BY <1>1, <1>k, <2>1, <2>2, <2>3, <2>4 DEF ShownIsSaved
    <2> QED
      BY <2>6, <2>7, <2>8
  <1> QED
    BY <1>2, <1>3, <1>4 DEF ProviderIInv

-----------------------------------------------------------------------------
\* The steps around the provider, and the death of the worker.
LEMMA AroundKeeps ==
    ASSUME ProviderIInv, NEW h \in Handlers,
           BeginRun(h) \/ PrepareRun(h) \/ StartRun(h) \/ CompleteRun(h) \/ FailRun(h) \/ DieRun(h)
    PROVE  ProviderIInv'
  <1>t. ProviderTypeOK /\ excuse \in BOOLEAN
    BY DEF ProviderIInv, ProviderTypeOK
  <1>1. UNCHANGED <<channel, saved, objects, contents, excuse>>
    BY DEF BeginRun, PrepareRun, StartRun, CompleteRun, FailRun, DieRun
  <1>2. CASE \E label \in {"prepare", "start", "load"} : NextIs(h, label)
    <2> PICK label \in {"prepare", "start", "load"} : NextIs(h, label)
      BY <1>2
    <2> DEFINE c == [exec[h] EXCEPT !.pc = label]
    <2>1. c \in ExecType /\ c.pc = label
      BY <1>t, ProviderFields DEF ExecType
    <2>2. exec' = [exec EXCEPT ![h] = c]
      BY DEF NextIs
    <2> HIDE DEF c
    <2> QED
      BY <1>t, <1>1, <2>1, <2>2, ExecutionMoves
  <1>3. CASE Throws(h) \/ exec' = [exec EXCEPT ![h] = Resting]
    BY <1>t, <1>1, <1>3, ExecutionRests
  <1> QED
    BY <1>2, <1>3 DEF BeginRun, PrepareRun, StartRun, CompleteRun, FailRun, DieRun

\* An execution that finds no object creates one; another one that does so
\* unseen is the excuse.
LEMMA LoadPriorKeeps ==
    ASSUME ProviderIInv, NEW h \in Handlers, LoadPrior(h)
    PROVE  ProviderIInv'
  <1>t. ProviderTypeOK /\ OwnSteps /\ excuse \in BOOLEAN
    BY DEF ProviderIInv, ProviderTypeOK
  <1> DEFINE c == [pc |-> IF channel = "WORDPRESS" THEN "lookup"
                          ELSE IF saved = 0 THEN "create" ELSE "ask",
                   object |-> saved, fresh |-> FALSE]
  <1>1. /\ exec' = [exec EXCEPT ![h] = c]
        /\ excuse' = (excuse \/ (channel # "WORDPRESS" /\ saved = 0 /\ Creating(h)))
        /\ UNCHANGED <<channel, saved, objects, contents>>
    BY DEF LoadPrior
  <1>2. c \in ExecType
    BY <1>t, ProviderFields DEF ExecType
  <1>3. /\ channel = "WORDPRESS" => c.pc = "lookup"
        /\ channel # "WORDPRESS" /\ saved = 0 => c.pc = "create"
        /\ channel # "WORDPRESS" /\ saved # 0 => c.pc = "ask" /\ saved \in DOMAIN objects
        /\ c.object = saved
    BY <1>t, ProviderFields
  <1>4. ASSUME ~excuse', channel # "WORDPRESS", saved = 0 PROVE ~Creating(h) /\ contents = 0
    <2>1. ~excuse /\ ~Creating(h) /\ ShownIsSaved
      BY <1>1, <1>4 DEF ProviderIInv
    <2> QED
      BY <1>t, <1>4, <2>1, ProviderFields DEF ShownIsSaved
  <1>5. excuse' \in BOOLEAN /\ (excuse => excuse')
    BY <1>t, <1>1
  <1> HIDE DEF c
  <1> QED
    BY <1>1, <1>2, <1>3, <1>4, <1>5, ExecutionMoves

\* So does one whose object is gone.
LEMMA ReplaceKeeps ==
    ASSUME ProviderIInv, NEW h \in Handlers, channel # "WORDPRESS", WorksOn(h),
           Object(h) = "gone", Replace(h), UNCHANGED <<channel, saved, objects, contents>>
    PROVE  ProviderIInv'
  <1>t. ProviderTypeOK /\ excuse \in BOOLEAN /\ ObjectsThere
    BY DEF ProviderIInv, ProviderTypeOK
  <1> DEFINE c == [exec[h] EXCEPT !.pc = "create", !.fresh = TRUE]
  <1>1. /\ exec' = [exec EXCEPT ![h] = c]
        /\ excuse' = (excuse \/ saved # exec[h].object \/ Creating(h))
    BY <1>t DEF Replace, ProviderTypeOK, ExecType
  <1>2. c \in ExecType /\ c.pc = "create"
    BY <1>t, ProviderFields DEF ExecType
  <1>3. ASSUME ~excuse' PROVE ~Creating(h) /\ contents = 0 /\ objects[saved] = "gone"
    <2>1. ~excuse /\ ~Creating(h) /\ ShownIsSaved /\ saved = exec[h].object
      BY <1>1, <1>3 DEF ProviderIInv
    <2>2. objects[saved] = "gone"
      BY <2>1 DEF Object
    <2> QED
      BY <1>t, <2>1, <2>2, ProviderFields DEF ShownIsSaved
  <1>4. excuse' \in BOOLEAN /\ (excuse => excuse')
    BY <1>t, <1>1
  <1> HIDE DEF c
  <1> QED
    BY <1>1, <1>2, <1>3, <1>4, ExecutionMoves

\* A new object is nobody's but its creator's.
LEMMA CreateObjectKeeps ==
    ASSUME ProviderIInv, NEW h \in Handlers, CreateObject(h)
    PROVE  ProviderIInv'
  <1>t. ProviderTypeOK /\ ObjectsThere /\ OwnSteps /\ excuse \in BOOLEAN
    BY DEF ProviderIInv, ProviderTypeOK
  <1>1. exec[h].pc = "create" /\ UNCHANGED <<channel, contents, saved, excuse>>
    BY DEF CreateObject, Running, Kept
  <1>2. channel # "WORDPRESS"
    BY <1>t, <1>1 DEF OwnSteps
  <1>f. /\ Len(objects) \in Nat /\ DOMAIN objects = 1..Len(objects)
        /\ saved \in Nat /\ (saved # 0 => saved \in DOMAIN objects)
        /\ exec[h] \in ExecType
    BY <1>t, ProviderFields
  <1>3. ASSUME objects' = Append(objects, "open"), NEW c \in ExecType,
               exec' = [exec EXCEPT ![h] = c],
               c.pc = "failed" \/ (c.pc = "save" /\ c.object = Len(objects) + 1)
        PROVE  ProviderIInv'
    <2>1. /\ objects' \in Seq(ObjectStates) /\ Len(objects') = Len(objects) + 1
          /\ DOMAIN objects' = DOMAIN objects \cup {Len(objects) + 1}
          /\ objects'[Len(objects) + 1] = "open"
          /\ \A k \in DOMAIN objects : objects'[k] = objects[k]
      <3>1. objects \in Seq(ObjectStates) /\ "open" \in ObjectStates
        BY <1>t DEF ProviderTypeOK, ObjectStates
      <3> HIDE DEF ObjectStates
      <3> QED
        BY <1>3, <1>f, <3>1
    <2>2. \A g \in Handlers : exec'[g] = IF g = h THEN c ELSE exec[g]
      BY <1>t, <1>3 DEF ProviderTypeOK
    <2>3. ProviderTypeOK'
      BY <1>t, <1>1, <1>3, <1>f, <2>1 DEF ProviderTypeOK
    <2>4. ObjectsThere' /\ OwnSteps'
      BY <1>t, <1>1, <1>2, <1>3, <2>1, <2>2 DEF ObjectsThere, OwnSteps, WorksOn, Running
    <2>5. ASSUME ~excuse PROVE (OneCreating /\ WorksOnSaved /\ ShownIsSaved)'
      <3>1. OneCreating /\ WorksOnSaved /\ ShownIsSaved
        BY <2>5 DEF ProviderIInv
      <3>2. ~Creating(h) /\ contents = 0 /\ (saved = 0 \/ objects[saved] = "gone")
        BY <1>1, <3>1 DEF OneCreating, IsCreating
      <3>3. \A g \in Handlers : g # h => ~IsCreating(g)
        BY <3>2 DEF Creating, IsCreating
      <3>4. OneCreating'
        <4>1. \A g \in Handlers : IsCreating(g)' => g = h
          BY <2>2, <3>3 DEF IsCreating
        <4>2. ~Creating(h)'
          BY <4>1 DEF Creating, IsCreating
        <4> QED
          BY <1>1, <1>f, <2>1, <3>2, <4>1, <4>2 DEF OneCreating
      <3>5. WorksOnSaved'
        BY <1>1, <1>3, <1>t, <2>1, <2>2, <3>1 DEF WorksOnSaved, WorksOn, ObjectsThere
      <3>6. ShownIsSaved'
        BY <1>1, <1>f, <2>1, <3>1, <3>2 DEF ShownIsSaved
      <3> QED
        BY <3>4, <3>5, <3>6
    <2> QED
      BY <1>1, <2>3, <2>4, <2>5 DEF ProviderIInv
  <1>4. CASE /\ objects' = Append(objects, "open")
             /\ exec' = [exec EXCEPT ![h].pc = "save", ![h].object = Len(objects) + 1]
    <2> DEFINE c == [exec[h] EXCEPT !.pc = "save", !.object = Len(objects) + 1]
    <2>1. c \in ExecType /\ c.pc = "save" /\ c.object = Len(objects) + 1
      <3>1. Len(objects) + 1 \in Nat
        BY <1>f
      <3> QED
        BY <1>f, <3>1 DEF ExecType
    <2>2. exec' = [exec EXCEPT ![h] = c]
      BY <1>t, <1>4 DEF ProviderTypeOK, ExecType
    <2> HIDE DEF c
    <2> QED
      BY <1>3, <1>4, <2>1, <2>2
  <1>5. CASE objects' = Append(objects, "open") /\ Throws(h)
    <2> DEFINE c == [Resting EXCEPT !.pc = "failed"]
    <2>1. c \in ExecType /\ c.pc = "failed" /\ exec' = [exec EXCEPT ![h] = c]
      BY <1>5 DEF ExecType, Resting, Throws
    <2> HIDE DEF c
    <2> QED
      BY <1>3, <1>5, <2>1
  <1>6. CASE UNCHANGED objects /\ Throws(h)
    BY <1>t, <1>1, <1>6, ExecutionRests
  <1> QED
    BY <1>4, <1>5, <1>6 DEF CreateObject

\* The checkpoint: whoever works on another object works on one that is gone.
LEMMA SaveCheckpointKeeps ==
    ASSUME ProviderIInv, NEW h \in Handlers, SaveCheckpoint(h)
    PROVE  ProviderIInv'
  <1>t. ProviderTypeOK /\ ObjectsThere /\ OwnSteps /\ excuse \in BOOLEAN
    BY DEF ProviderIInv, ProviderTypeOK
  <1>1. exec[h].pc = "save" /\ UNCHANGED <<channel, contents, objects, excuse>>
    BY DEF SaveCheckpoint, Running, Kept
  <1>2. channel # "WORDPRESS"
    BY <1>t, <1>1 DEF OwnSteps
  <1>3. CASE SaveObject(h) /\ NextIs(h, "upload")
    <2> PICK k : k = exec[h].object
      OBVIOUS
    <2> DEFINE c == [exec[h] EXCEPT !.pc = "upload"]
    <2>1. c \in ExecType /\ c.pc = "upload" /\ c.object = k
      BY <1>t, ProviderFields DEF ExecType
    <2>2. \A g \in Handlers : exec'[g] = IF g = h THEN c ELSE exec[g]
      BY <1>t, <1>3 DEF NextIs, ProviderTypeOK
    <2>3. k \in DOMAIN objects /\ k # 0 /\ saved' = k /\ k \in 0..Len(objects)
      BY <1>t, <1>1, <1>3, ProviderFields DEF ObjectsThere, Running, SaveObject
    <2>s. exec' \in [Handlers -> ExecType]
      BY <1>t, <1>3, <2>1 DEF NextIs, ProviderTypeOK
    <2> HIDE DEF c
    <2>4. ProviderTypeOK'
      BY <1>t, <1>1, <2>3, <2>s DEF ProviderTypeOK
    <2>5. ObjectsThere' /\ OwnSteps'
      BY <1>t, <1>1, <1>2, <2>1, <2>2, <2>3 DEF ObjectsThere, OwnSteps, WorksOn, Running
    <2>6. ASSUME ~excuse PROVE (OneCreating /\ WorksOnSaved /\ ShownIsSaved)'
      <3>1. OneCreating /\ WorksOnSaved /\ ShownIsSaved
        BY <2>6 DEF ProviderIInv
      <3>2. ~Creating(h) /\ contents = 0 /\ (saved = 0 \/ objects[saved] = "gone")
        BY <1>1, <3>1 DEF OneCreating, IsCreating
      <3>3. OneCreating'
        BY <2>1, <2>2, <3>2 DEF OneCreating, Creating, IsCreating
      <3>4. WorksOnSaved'
        <4> SUFFICES ASSUME NEW g \in Handlers, WorksOn(g)'
                     PROVE  exec'[g].object = k \/ objects[exec'[g].object] = "gone"
          BY <1>1, <2>3 DEF WorksOnSaved
        <4>1. CASE g = h
          BY <2>1, <2>2, <4>1
        <4>2. CASE g # h
          <5>1. /\ exec'[g] = exec[g] /\ exec[g].object \in DOMAIN objects
                /\ exec[g].object = saved \/ objects[exec[g].object] = "gone"
            BY <1>t, <2>2, <3>1, <4>2 DEF WorksOnSaved, WorksOn, ObjectsThere
          <5>2. exec[g].object # 0
            BY <1>t, <5>1, ProviderFields
          <5> QED
            BY <3>2, <5>1, <5>2
        <4> QED
          BY <4>1, <4>2
      <3>5. ShownIsSaved'
        BY <1>1, <3>1, <3>2 DEF ShownIsSaved
      <3> QED
        BY <3>3, <3>4, <3>5
    <2> QED
      BY <1>1, <2>4, <2>5, <2>6 DEF ProviderIInv
  <1>4. CASE Throws(h) /\ UNCHANGED saved
    BY <1>t, <1>1, <1>4, ExecutionRests
  <1> QED
    BY <1>3, <1>4 DEF SaveCheckpoint

\* An execution goes on with the object it has.
LEMMA GoesOn ==
    ASSUME ProviderIInv, NEW h \in Handlers, WorksOn(h), NEW label \in {"ask", "upload", "publish"},
           NextIs(h, label), UNCHANGED <<channel, saved, objects, contents, excuse>>
    PROVE  ProviderIInv'
  <1>t. ProviderTypeOK /\ OwnSteps /\ ObjectsThere /\ excuse \in BOOLEAN
    BY DEF ProviderIInv, ProviderTypeOK
  <1> DEFINE c == [exec[h] EXCEPT !.pc = label]
  <1>1. c \in ExecType /\ c.pc = label /\ c.object = exec[h].object
    BY <1>t, ProviderFields DEF ExecType
  <1>2. exec' = [exec EXCEPT ![h] = c]
    BY DEF NextIs
  <1>3. channel # "WORDPRESS" /\ exec[h].object \in DOMAIN objects
    BY <1>t DEF OwnSteps, ObjectsThere
  <1>4. ~excuse => exec[h].object = saved \/ objects[exec[h].object] = "gone"
    BY DEF ProviderIInv, WorksOnSaved
  <1> HIDE DEF c
  <1> QED
    BY <1>t, <1>1, <1>2, <1>3, <1>4, ExecutionMoves

\* YouTube: a session that is complete answers with its video.
LEMMA YouTubeKeeps ==
    ASSUME ProviderIInv, NEW h \in Handlers, AskSession(h) \/ UploadChunks(h)
    PROVE  ProviderIInv'
  <1>t. excuse \in BOOLEAN /\ WorksOn(h) /\ channel # "WORDPRESS"
    BY DEF ProviderIInv, ProviderTypeOK, AskSession, UploadChunks, WorksOn, Running
  <1>1. CASE AskSession(h)
    <2>1. UNCHANGED <<channel, saved, objects, contents>>
      BY <1>1 DEF AskSession, Kept
    <2>2. CASE Object(h) = "gone" /\ Replace(h)
      BY <1>t, <2>1, <2>2, ReplaceKeeps
    <2>3. CASE (Returns(h) \/ Throws(h)) /\ UNCHANGED excuse
      BY <1>t, <2>1, <2>3, ExecutionRests
    <2>4. CASE NextIs(h, "upload") /\ UNCHANGED excuse
      BY <1>t, <2>1, <2>4, GoesOn
    <2> QED
      BY <1>1, <2>2, <2>3, <2>4 DEF AskSession
  <1>2. CASE UploadChunks(h)
    <2>1. UNCHANGED <<channel, saved, excuse>>
      BY <1>2 DEF UploadChunks
    <2>2. CASE Object(h) = "open" /\ Become(h, "done") /\ contents' = contents + 1 /\ (Returns(h) \/ Throws(h))
      BY <1>t, <2>1, <2>2, ObjectIsShown
    <2>3. CASE (Returns(h) \/ Throws(h)) /\ UNCHANGED <<objects, contents>>
      BY <1>t, <2>1, <2>3, ExecutionRests
    <2> QED
      BY <1>2, <2>2, <2>3 DEF UploadChunks
  <1> QED
    BY <1>1, <1>2

\* Instagram: a container is published at most once.
LEMMA InstagramKeeps ==
    ASSUME ProviderIInv, NEW h \in Handlers, UploadMedia(h) \/ PollContainer(h) \/ PublishContainer(h)
    PROVE  ProviderIInv'
  <1>t. excuse \in BOOLEAN /\ WorksOn(h) /\ channel # "WORDPRESS"
    BY DEF ProviderIInv, ProviderTypeOK, UploadMedia, PollContainer, PublishContainer, WorksOn, Running
  <1>1. CASE PollContainer(h)
    <2>1. UNCHANGED <<channel, saved, objects, contents>>
      BY <1>1 DEF PollContainer, Kept
    <2>2. CASE Object(h) = "gone" /\ Replace(h)
      BY <1>t, <2>1, <2>2, ReplaceKeeps
    <2>3. CASE Throws(h) /\ UNCHANGED excuse
      BY <1>t, <2>1, <2>3, ExecutionRests
    <2>4. CASE NextIs(h, "publish") /\ UNCHANGED excuse
      BY <1>t, <2>1, <2>4, GoesOn
    <2> QED
      BY <1>1, <2>2, <2>3, <2>4 DEF PollContainer
  <1>2. CASE PublishContainer(h)
    <2>1. UNCHANGED <<channel, saved, excuse>>
      BY <1>2 DEF PublishContainer
    <2>2. CASE Object(h) = "finished" /\ Become(h, "published") /\ contents' = contents + 1 /\ (Returns(h) \/ Throws(h))
      BY <1>t, <2>1, <2>2, ObjectIsShown
    <2>3. CASE Throws(h) /\ UNCHANGED <<objects, contents>>
      BY <1>t, <2>1, <2>3, ExecutionRests
    <2> QED
      BY <1>2, <2>2, <2>3 DEF PublishContainer
  <1>3. CASE UploadMedia(h)
    <2>t. ProviderTypeOK
      BY DEF ProviderIInv
    <2>1. UNCHANGED <<channel, saved, contents, excuse>>
      BY <1>3 DEF UploadMedia, Kept
    <2>2. CASE UNCHANGED objects /\ Throws(h)
      BY <1>t, <2>1, <2>2, ExecutionRests
    <2>3. CASE UNCHANGED objects /\ NextIs(h, "ask")
      BY <1>t, <2>1, <2>3, GoesOn
    <2>4. CASE /\ Object(h) = "open" /\ objects' = [objects EXCEPT ![exec[h].object] = "processing"]
               /\ NextIs(h, "ask") \/ Throws(h)
      <3> PICK k : k = exec[h].object
        OBVIOUS
      <3>1. k \in Nat /\ objects[k] \notin {"gone", "done", "published"}
            /\ objects' = [objects EXCEPT ![k] = "processing"] /\ "processing" \in ObjectStates
        BY <2>t, <2>4, ProviderFields DEF Object, ObjectStates
      <3>2. PICK c \in ExecType :
                /\ exec' = [exec EXCEPT ![h] = c]
                /\ c.pc = "failed" \/ (c.pc = "ask" /\ c.object = exec[h].object)
        <4>1. CASE NextIs(h, "ask")
          <5> DEFINE c == [exec[h] EXCEPT !.pc = "ask"]
          <5>1. c \in ExecType /\ c.pc = "ask" /\ c.object = exec[h].object
            BY <2>t, ProviderFields DEF ExecType
          <5>2. exec' = [exec EXCEPT ![h] = c]
            BY <4>1 DEF NextIs
          <5> HIDE DEF c
          <5> QED
            BY <5>1, <5>2
        <4>2. CASE Throws(h)
          <5> DEFINE c == [Resting EXCEPT !.pc = "failed"]
          <5>1. c \in ExecType /\ c.pc = "failed"
            BY DEF Resting, ExecType
          <5>2. exec' = [exec EXCEPT ![h] = c]
            BY <4>2 DEF Throws
          <5> HIDE DEF c
          <5> QED
            BY <5>1, <5>2
        <4> QED
          BY <2>4, <4>1, <4>2
      <3>3. /\ exec' \in [Handlers -> ExecType]
            /\ \A g \in Handlers : \/ exec'[g] = exec[g]
                                   \/ exec'[g].pc = "failed"
                                   \/ /\ WorksOn(g) /\ exec'[g].pc = "ask"
                                      /\ exec'[g].object = exec[g].object
        BY <1>t, <2>t, <3>2 DEF ProviderTypeOK
      <3> QED
        BY <2>1, <3>1, <3>3, ObjectMoves
    <2> QED
      BY <1>3, <2>2, <2>3, <2>4 DEF UploadMedia
  <1> QED
    BY <1>1, <1>2, <1>3

\* WordPress: who creates a post has looked for one, and nobody else creates.
LEMMA WordPressKeeps ==
    ASSUME ProviderIInv, NEW h \in Handlers, FindPostByMarker(h) \/ CreatePost(h)
    PROVE  ProviderIInv'
  <1>t. ProviderTypeOK /\ excuse \in BOOLEAN /\ channel = "WORDPRESS" /\ saved = 0 /\ OwnSteps
    BY DEF ProviderIInv, ProviderTypeOK, OwnSteps, FindPostByMarker, CreatePost
  <1>1. CASE FindPostByMarker(h)
    <2>1. UNCHANGED <<channel, saved, objects, contents>>
      BY <1>1 DEF FindPostByMarker, Kept
    <2>2. CASE (Returns(h) \/ Throws(h)) /\ UNCHANGED excuse
      BY <1>t, <2>1, <2>2, ExecutionRests
    <2>3. CASE contents = 0 /\ NextIs(h, "post") /\ excuse' = (excuse \/ Creating(h))
      <3> DEFINE c == [exec[h] EXCEPT !.pc = "post"]
      <3>1. c \in ExecType /\ c.pc = "post"
        BY <1>t, ProviderFields DEF ExecType
      <3>2. exec' = [exec EXCEPT ![h] = c] /\ excuse' \in BOOLEAN /\ (excuse => excuse')
            /\ (~excuse' => ~Creating(h))
        BY <1>t, <2>3 DEF NextIs
      <3> HIDE DEF c
      <3> QED
        BY <1>t, <2>1, <2>3, <3>1, <3>2, ExecutionMoves
    <2> QED
      BY <1>1, <2>2, <2>3 DEF FindPostByMarker, LookupThrows
  <1>2. CASE CreatePost(h)
    <2>1. exec[h].pc = "post" /\ UNCHANGED <<channel, saved, objects, excuse>>
      BY <1>2 DEF CreatePost, Running
    <2>2. CASE contents' = contents /\ Throws(h)
      BY <1>t, <2>1, <2>2, ExecutionRests
    <2>3. CASE contents' = contents + 1 /\ (Returns(h) \/ Throws(h))
      <3>1. PICK c \in ExecType : exec' = [exec EXCEPT ![h] = c] /\ c.pc \in {"failed", "done"}
        BY <2>3, ThrowsOrReturns
      <3>2. \A g \in Handlers : exec'[g] = IF g = h THEN c ELSE exec[g]
        BY <1>t, <3>1 DEF ProviderTypeOK
      <3>3. ProviderTypeOK'
        BY <1>t, <2>1, <2>3, <3>1 DEF ProviderTypeOK
      <3>4. ObjectsThere' /\ OwnSteps'
        BY <1>t, <2>1, <3>1, <3>2 DEF ProviderIInv, ObjectsThere, OwnSteps, WorksOn, Running
      <3>5. ASSUME ~excuse PROVE (OneCreating /\ WorksOnSaved /\ ShownIsSaved)'
        <4>1. ~Creating(h) /\ contents = 0
          BY <2>1, <3>5 DEF ProviderIInv, OneCreating, IsCreating
        <4>2. \A g \in Handlers : ~IsCreating(g)'
          BY <3>1, <3>2, <4>1 DEF Creating, IsCreating
        <4>3. \A g \in Handlers : ~WorksOn(g)'
          BY <1>t, <3>1, <3>2 DEF OwnSteps, WorksOn
        <4> QED
          BY <1>t, <2>1, <2>3, <4>1, <4>2, <4>3 DEF OneCreating, WorksOnSaved, ShownIsSaved
      <3> QED
        BY <2>1, <3>3, <3>4, <3>5 DEF ProviderIInv
    <2> QED
      BY <1>2, <2>2, <2>3 DEF CreatePost
  <1> QED
    BY <1>1, <1>2

\* Every step keeps the invariant.
LEMMA ProviderStep == ProviderIInv /\ [ProviderNext]_providerVars => ProviderIInv'
  <1> SUFFICES ASSUME ProviderIInv, [ProviderNext]_providerVars PROVE ProviderIInv'
    OBVIOUS
  <1>t. ProviderTypeOK
    BY DEF ProviderIInv
  <1>1. CASE RemoteProgress
    <2>1. UNCHANGED <<channel, saved, contents, exec, excuse>> /\ exec' \in [Handlers -> ExecType]
      BY <1>t, <1>1 DEF RemoteProgress, Kept, ProviderTypeOK
    <2>2. PICK k \in DOMAIN objects : \E state \in {"gone", "finished", "broken"} :
              /\ objects[k] \notin {"gone", "done", "published"}
              /\ objects' = [objects EXCEPT ![k] = state]
      BY <1>1 DEF RemoteProgress
    <2>3. k \in Nat
      BY <1>t, ProviderFields
    <2>4. {"gone", "finished", "broken"} \subseteq ObjectStates
      BY DEF ObjectStates
    <2> QED
      BY <2>1, <2>2, <2>3, <2>4, ObjectMoves
  <1>2. CASE LatePost
    <2>1. excuse' = TRUE /\ contents' = contents + 1 /\ UNCHANGED <<channel, saved, objects, exec>>
      BY <1>2 DEF LatePost
    <2> QED
      BY <1>t, <2>1 DEF ProviderIInv, ProviderTypeOK, ObjectsThere, OwnSteps, WorksOn, Running
  <1>3. CASE UNCHANGED providerVars
    BY <1>3
    DEF providerVars, ProviderIInv, ProviderTypeOK, ObjectsThere, OwnSteps, OneCreating,
        WorksOnSaved, ShownIsSaved, WorksOn, IsCreating, Creating, Running
  <1> QED
    BY <1>1, <1>2, <1>3, AroundKeeps, LoadPriorKeeps, CreateObjectKeeps, SaveCheckpointKeeps,
       YouTubeKeeps, InstagramKeeps, WordPressKeeps
    DEF ProviderNext

\* The three channel providers: however often a target is executed, it shows its
\* content at most once, unless excused.
THEOREM ProviderSpecOneExternalContent == ProviderSpec => []OneExternalContent
  <1>1. ProviderIInv => OneExternalContent
    BY DEF ProviderIInv, OneExternalContent, ShownIsSaved
  <1> QED
    BY <1>1, ProviderInitial, ProviderStep, PTL DEF ProviderSpec

-----------------------------------------------------------------------------
(* VideoPipeline: every claim takes a serial number of its own, and nothing *)
(* but the stage it was made for ever holds it; so what a request in        *)
(* progress owns is its alone, and a stage that waits for a job is awaited  *)
(* by that request or was left by one that died. A render is made of what   *)
(* the stages before it were claimed by last: whatever is live of what the  *)
(* video has by now is the one render it waits for, and what was live of an *)
(* older state can never be told from a newer one.                          *)

\* What a stage and a scene may become without being claimed: they keep their
\* claim, and their job or none, or start again.
StageFrom(a, b) ==
    \/ /\ b.claim = a.claim /\ b.job \in {a.job, None}
       /\ b.status = "GENERATING" /\ b.job = None => a.status = "GENERATING" /\ a.job = None
    \/ b.claim = 0 /\ b.job = None /\ b.status # "GENERATING"

SceneFrom(v, s, b) ==
    \/ s \in DOMAIN v.scenes /\ b.claim = v.scenes[s].claim /\ b.job \in {v.scenes[s].job, None}
    \/ b.claim = 0 /\ b.job = None

Follows(v, w) ==
    /\ VideoShape(w)
    /\ \A k \in StageNames : StageFrom(v[k], w[k])
    /\ \A s \in DOMAIN w.scenes : SceneFrom(v, s, w.scenes[s])

\* No later render can be told from what v was rendered of.
SameRender(v, w) ==
    Upstream(w) = Upstream(v) /\ w.render.job = v.render.job /\ w.render.claim = v.render.claim

LEMMA Fields ==
    /\ DOMAIN NoText = {"status", "job", "artifact", "claim"}
    /\ DOMAIN NoScene = {"group", "asset", "job", "claim"}
    /\ DOMAIN NoVoice = {"status", "job", "audio", "hash", "claim"}
    /\ DOMAIN NoSubs = {"status", "job", "vtt", "source", "claim"}
    /\ DOMAIN NoRender = {"status", "job", "claim"}
  BY DEF NoText, NoScene, NoVoice, NoSubs, NoRender

LEMMA Names ==
    /\ StageNames = {"brief", "script", "plan", "seo", "voice", "subs", "render"}
    /\ TextStages = {"brief", "script", "plan", "seo"}
  BY DEF StageNames, TextStages

LEMMA FinalTextFrom ==
    ASSUME NEW a, DOMAIN a = DOMAIN NoText, NEW valid
    PROVE  /\ DOMAIN FinalText(a, valid) = DOMAIN NoText
           /\ StageFrom(a, FinalText(a, valid)) /\ FinalText(a, valid).claim = a.claim
  BY Fields DEF FinalText, StageFrom

LEMMA FinalTextsFrom ==
    ASSUME NEW v, VideoShape(v)
    PROVE  Follows(v, FinalTexts(v)) /\ SameRender(v, FinalTexts(v))
  <1> DEFINE w == FinalTexts(v)
  <1>0. /\ DOMAIN v = {"brief", "script", "plan", "seo", "voice", "subs", "render", "scenes", "qa", "score", "columns"}
        /\ \A k \in {"brief", "script", "plan", "seo"} : DOMAIN v[k] = DOMAIN NoText
    BY Names DEF VideoShape
  <1>1. PICK b, c, p, q : /\ b = FinalText(v.brief, TRUE) /\ c = FinalText(v.script, TRUE)
                          /\ p = FinalText(v.plan, c.artifact # None) /\ q = FinalText(v.seo, TRUE)
    OBVIOUS
  <1>2. w = [v EXCEPT !.brief = b, !.script = c, !.plan = p, !.seo = q, !.columns = Columns(v, q)]
    BY <1>1 DEF FinalTexts
  <1>3. /\ DOMAIN w = DOMAIN v /\ w.brief = b /\ w.script = c /\ w.plan = p /\ w.seo = q
        /\ w.voice = v.voice /\ w.subs = v.subs /\ w.render = v.render /\ w.scenes = v.scenes
    BY <1>0, <1>2
  <1>4. /\ DOMAIN b = DOMAIN NoText /\ StageFrom(v.brief, b) /\ b.claim = v.brief.claim
        /\ DOMAIN c = DOMAIN NoText /\ StageFrom(v.script, c) /\ c.claim = v.script.claim
        /\ DOMAIN p = DOMAIN NoText /\ StageFrom(v.plan, p) /\ p.claim = v.plan.claim
        /\ DOMAIN q = DOMAIN NoText /\ StageFrom(v.seo, q)
    BY <1>0, <1>1, FinalTextFrom
  <1>5. VideoShape(w)
    BY <1>3, <1>4, Names DEF VideoShape
  <1>6. StageFrom(v.voice, v.voice) /\ StageFrom(v.subs, v.subs) /\ StageFrom(v.render, v.render)
    BY DEF StageFrom
  <1>7. \A k \in StageNames : StageFrom(v[k], w[k])
    BY <1>3, <1>4, <1>6, Names
  <1>8. \A s \in DOMAIN w.scenes : SceneFrom(v, s, w.scenes[s])
    BY <1>3 DEF SceneFrom
  <1> QED
    BY <1>3, <1>4, <1>5, <1>7, <1>8 DEF Follows, SameRender, Upstream

LEMMA SceneSettles ==
    ASSUME NEW a, DOMAIN a = DOMAIN NoScene
    PROVE  /\ DOMAIN Verified(Advanced(a)) = DOMAIN NoScene
           /\ Verified(Advanced(a)).claim = a.claim /\ Verified(Advanced(a)).job \in {a.job, None}
  <1>1. PICK b : b = Advanced(a)
    OBVIOUS
  <1>2. DOMAIN b = DOMAIN NoScene /\ b.claim = a.claim /\ b.job \in {a.job, None}
    BY <1>1, Fields DEF Advanced
  <1>3. /\ DOMAIN Verified(b) = DOMAIN NoScene
        /\ Verified(b).claim = b.claim /\ Verified(b).job = b.job
    BY <1>2, Fields DEF Verified
  <1> QED
    BY <1>1, <1>2, <1>3

LEMMA ScenesFrom ==
    ASSUME NEW v, VideoShape(v), NEW s \in DOMAIN ScenesOf(v)
    PROVE  DOMAIN ScenesOf(v)[s] = DOMAIN NoScene /\ SceneFrom(v, s, ScenesOf(v)[s])
  <1>1. CASE s \in DOMAIN v.scenes
    <2>1. ScenesOf(v)[s] = Verified(Advanced(v.scenes[s])) /\ DOMAIN v.scenes[s] = DOMAIN NoScene
      BY <1>1 DEF ScenesOf, VideoShape
    <2> QED
      BY <1>1, <2>1, SceneSettles DEF SceneFrom
  <1>2. CASE s \notin DOMAIN v.scenes
    BY <1>2 DEF ScenesOf, SceneFrom, NoScene
  <1> QED
    BY <1>1, <1>2

LEMMA VoiceFrom ==
    ASSUME NEW v, VideoShape(v)
    PROVE  DOMAIN VoiceOf(v) = DOMAIN NoVoice /\ StageFrom(v.voice, VoiceOf(v))
  <1>1. PICK a : a = VoiceTaken(v.voice)
    OBVIOUS
  <1>2. DOMAIN a = DOMAIN NoVoice /\ StageFrom(v.voice, a) /\ a.claim = v.voice.claim
        /\ a.job \in {v.voice.job, None}
    BY <1>1, Fields DEF VoiceTaken, VideoShape, StageFrom
  <1>3. VoiceOf(v) \in {a, [a EXCEPT !.status = "PENDING"]}
    BY <1>1 DEF VoiceOf
  <1> QED
    BY <1>2, <1>3, Fields DEF StageFrom

LEMMA SubsFrom ==
    ASSUME NEW v, VideoShape(v), NEW voice
    PROVE  DOMAIN SubsOf(v, voice) = DOMAIN NoSubs /\ StageFrom(v.subs, SubsOf(v, voice))
  <1>1. PICK a : a = SubsTaken(v.subs)
    OBVIOUS
  <1>2. DOMAIN a = DOMAIN NoSubs /\ StageFrom(v.subs, a) /\ a.claim = v.subs.claim
        /\ a.job \in {v.subs.job, None}
    BY <1>1, Fields DEF SubsTaken, VideoShape, StageFrom
  <1>3. SubsOf(v, voice) \in {a, [a EXCEPT !.status = "PENDING"]}
    BY <1>1 DEF SubsOf
  <1> QED
    BY <1>2, <1>3, Fields DEF StageFrom

LEMMA MediaFrom ==
    ASSUME NEW v, VideoShape(v)
    PROVE  Follows(v, Media(v)) /\ SameRender(v, Media(v))
  <1>1. PICK a, b, c : a = VoiceOf(v) /\ b = SubsOf(v, a) /\ c = ScenesOf(v)
    OBVIOUS
  <1>2. PICK w : w = Media(v)
    OBVIOUS
  <1>3. DOMAIN v = {"brief", "script", "plan", "seo", "voice", "subs", "render", "scenes", "qa", "score", "columns"}
    BY Names DEF VideoShape
  <1>4. /\ DOMAIN w = DOMAIN v /\ w.voice = a /\ w.subs = b /\ w.scenes = c
        /\ w.brief = v.brief /\ w.script = v.script /\ w.plan = v.plan /\ w.seo = v.seo
        /\ w.render = v.render
    BY <1>1, <1>2, <1>3 DEF Media
  <1>5. /\ DOMAIN a = DOMAIN NoVoice /\ StageFrom(v.voice, a)
        /\ DOMAIN b = DOMAIN NoSubs /\ StageFrom(v.subs, b)
    BY <1>1, VoiceFrom, SubsFrom
  <1>6. \A s \in DOMAIN c : DOMAIN c[s] = DOMAIN NoScene /\ SceneFrom(v, s, c[s])
    BY <1>1, ScenesFrom
  <1>7. VideoShape(w)
    BY <1>4, <1>5, <1>6, Names DEF VideoShape
  <1>8. /\ StageFrom(v.brief, v.brief) /\ StageFrom(v.script, v.script) /\ StageFrom(v.plan, v.plan)
        /\ StageFrom(v.seo, v.seo) /\ StageFrom(v.render, v.render)
    BY DEF StageFrom
  <1>9. \A k \in StageNames : StageFrom(v[k], w[k])
    BY <1>4, <1>5, <1>8, Names
  <1>10. Follows(v, w)
    BY <1>4, <1>6, <1>7, <1>9 DEF Follows
  <1>11. SameRender(v, w)
    BY <1>4 DEF SameRender, Upstream
  <1> QED
    BY <1>2, <1>10, <1>11

\* What is computed of the status of the render and of the QA report leaves the
\* stages and their claims alone.
LEMMA RenderedFrom ==
    ASSUME NEW v, VideoShape(v)
    PROVE  Follows(v, Rendered(v)) /\ SameRender(v, Rendered(v))
  <1>1. PICK st : st = RenderStatus(v)
    OBVIOUS
  <1>2. PICK w : w = [v EXCEPT !.render.status = st]
    OBVIOUS
  <1>3. DOMAIN v = {"brief", "script", "plan", "seo", "voice", "subs", "render", "scenes", "qa", "score", "columns"}
        /\ DOMAIN v.render = {"status", "job", "claim"}
    BY Names, Fields DEF VideoShape
  <1>4. /\ DOMAIN w = DOMAIN v /\ w.voice = v.voice /\ w.subs = v.subs /\ w.scenes = v.scenes
        /\ w.brief = v.brief /\ w.script = v.script /\ w.plan = v.plan /\ w.seo = v.seo
        /\ DOMAIN w.render = DOMAIN v.render /\ w.render.job = v.render.job
        /\ w.render.claim = v.render.claim /\ w.render.status = st
    BY <1>2, <1>3
  <1>5. VideoShape(w)
    BY <1>4, Names DEF VideoShape
  <1>6. st # "GENERATING" \/ st = v.render.status
    BY <1>1 DEF RenderStatus
  <1>7. /\ StageFrom(v.brief, v.brief) /\ StageFrom(v.script, v.script) /\ StageFrom(v.plan, v.plan)
        /\ StageFrom(v.seo, v.seo) /\ StageFrom(v.voice, v.voice) /\ StageFrom(v.subs, v.subs)
        /\ StageFrom(v.render, w.render)
    BY <1>4, <1>6 DEF StageFrom
  <1>8. \A k \in StageNames : StageFrom(v[k], w[k])
    BY <1>4, <1>7, Names
  <1>9. \A s \in DOMAIN w.scenes : SceneFrom(v, s, w.scenes[s])
    BY <1>4 DEF SceneFrom
  <1>10. Follows(v, w) /\ SameRender(v, w)
    BY <1>4, <1>5, <1>8, <1>9 DEF Follows, SameRender, Upstream
  <1> QED
    BY <1>1, <1>2, <1>10 DEF Rendered

\* A change of the QA report or of the score leaves the stages alone.
LEMMA ReportFrom ==
    ASSUME NEW v, VideoShape(v), NEW w, DOMAIN w = DOMAIN v,
           \A f \in DOMAIN v : f \notin {"qa", "score"} => w[f] = v[f]
    PROVE  Follows(v, w) /\ SameRender(v, w)
  <1>1. DOMAIN v = {"brief", "script", "plan", "seo", "voice", "subs", "render", "scenes", "qa", "score", "columns"}
    BY Names DEF VideoShape
  <1>2. /\ w.voice = v.voice /\ w.subs = v.subs /\ w.scenes = v.scenes /\ w.render = v.render
        /\ w.brief = v.brief /\ w.script = v.script /\ w.plan = v.plan /\ w.seo = v.seo
    BY <1>1
  <1>3. VideoShape(w)
    BY <1>2, Names DEF VideoShape
  <1>4. \A k \in StageNames : StageFrom(v[k], w[k])
    BY <1>2, Names DEF StageFrom
  <1>5. \A s \in DOMAIN w.scenes : SceneFrom(v, s, w.scenes[s])
    BY <1>2 DEF SceneFrom
  <1> QED
    BY <1>2, <1>3, <1>4, <1>5 DEF Follows, SameRender, Upstream

LEMMA StageFromTrans ==
    ASSUME NEW a, NEW b, NEW c, StageFrom(a, b), StageFrom(b, c)
    PROVE  StageFrom(a, c)
  BY DEF StageFrom

LEMMA FollowsTrans ==
    ASSUME NEW u, NEW v, NEW w, Follows(u, v), Follows(v, w)
    PROVE  Follows(u, w)
  <1>1. \A k \in StageNames : StageFrom(u[k], w[k])
    BY StageFromTrans DEF Follows
  <1>2. \A s \in DOMAIN w.scenes : SceneFrom(u, s, w.scenes[s])
    BY DEF Follows, SceneFrom
  <1> QED
    BY <1>1, <1>2 DEF Follows

LEMMA SameRenderTrans ==
    ASSUME NEW u, NEW v, NEW w, SameRender(u, v), SameRender(v, w)
    PROVE  SameRender(u, w)
  BY DEF SameRender

LEMMA ReconciledFrom ==
    ASSUME NEW v, VideoShape(v)
    PROVE  Follows(v, Reconciled(v)) /\ SameRender(v, Reconciled(v))
  <1>1. Follows(v, Media(v)) /\ SameRender(v, Media(v)) /\ VideoShape(Media(v))
    BY MediaFrom DEF Follows
  <1>2. /\ Follows(Media(v), Reconciled(v)) /\ SameRender(Media(v), Reconciled(v))
    BY <1>1, RenderedFrom DEF Reconciled
  <1> QED
    BY <1>1, <1>2, FollowsTrans, SameRenderTrans

LEMMA QaFrom ==
    ASSUME NEW v, VideoShape(v)
    PROVE  Follows(v, QaOf(v)) /\ SameRender(v, QaOf(v))
  <1>1. PICK w : w = QaOf(v)
    OBVIOUS
  <1>2. DOMAIN w = DOMAIN v /\ \A f \in DOMAIN v : f \notin {"qa", "score"} => w[f] = v[f]
    BY <1>1 DEF QaOf
  <1>3. Follows(v, w) /\ SameRender(v, w)
    BY <1>2, ReportFrom
  <1> QED
    BY <1>1, <1>3

LEMMA FinalizedFrom ==
    ASSUME VideoShape(video)
    PROVE  Follows(video, Finalized) /\ SameRender(video, Finalized)
  <1>1. PICK a : a = FinalTexts(video)
    OBVIOUS
  <1>2. PICK b : b = Reconciled(a)
    OBVIOUS
  <1>3. Follows(video, a) /\ SameRender(video, a) /\ VideoShape(a)
    BY <1>1, FinalTextsFrom DEF Follows
  <1>4. Follows(a, b) /\ SameRender(a, b) /\ VideoShape(b)
    BY <1>2, <1>3, ReconciledFrom DEF Follows
  <1>5. Follows(b, QaOf(b)) /\ SameRender(b, QaOf(b))
    BY <1>4, QaFrom
  <1>6. Follows(video, b) /\ SameRender(video, b)
    BY <1>3, <1>4, FollowsTrans, SameRenderTrans
  <1>7. Finalized = QaOf(b)
    BY <1>1, <1>2 DEF Finalized
  <1> QED
    BY <1>5, <1>6, <1>7, FollowsTrans, SameRenderTrans

-----------------------------------------------------------------------------
\* The video with one stage claimed: that stage has the new serial number.
ClaimedFrom(v, w, what) ==
    /\ VideoShape(w)
    /\ \A k \in StageNames : StageFrom(v[k], w[k]) \/ (k = what /\ w[k].claim = Serial)
    /\ \A s \in DOMAIN w.scenes :
           SceneFrom(v, s, w.scenes[s]) \/ (s = what /\ s \in Scenes /\ w.scenes[s].claim = Serial)

LEMMA Appended ==
    ASSUME JobsShape(jobs), NEW x, DOMAIN x = {"kind", "from", "status", "covers"},
           NEW j, j = Append(jobs, x)
    PROVE  /\ Len(jobs) \in Nat /\ DOMAIN jobs = 1..Len(jobs) /\ DOMAIN j = 1..Serial /\ Len(j) = Serial
           /\ \A n \in DOMAIN jobs : j[n] = jobs[n]
           /\ j[Serial] = x /\ JobsShape(j)
  <1> DEFINE S == {jobs[n] : n \in DOMAIN jobs}
  <1>1. jobs \in Seq(S)
    BY DEF JobsShape
  <1> HIDE DEF S
  <1>3. /\ Len(jobs) \in Nat /\ DOMAIN jobs = 1..Len(jobs) /\ DOMAIN j = 1..Serial /\ Len(j) = Serial
        /\ \A n \in DOMAIN jobs : j[n] = jobs[n]
        /\ j[Serial] = x
    BY <1>1 DEF Serial
  <1>4. j \in Seq({j[n] : n \in DOMAIN j})
    <2> DEFINE U == {j[n] : n \in DOMAIN j}
    <2>1. \A n \in 1..Len(j) : j[n] \in U
      BY <1>3
    <2>2. j \in Seq(S \cup {x})
      BY <1>1
    <2> HIDE DEF U
    <2>3. j \in Seq(U)
      BY <2>1, <2>2
    <2> QED
      BY <2>3 DEF U
  <1>5. \A n \in DOMAIN j : DOMAIN j[n] = {"kind", "from", "status", "covers"}
    <2> SUFFICES ASSUME NEW n \in DOMAIN j PROVE DOMAIN j[n] = {"kind", "from", "status", "covers"}
      OBVIOUS
    <2>1. CASE n \in DOMAIN jobs
      BY <1>3, <2>1 DEF JobsShape
    <2>2. CASE n = Serial
      BY <1>3, <2>2
    <2> QED
      BY <1>3, <2>1, <2>2 DEF Serial
  <1> QED
    BY <1>3, <1>4, <1>5 DEF JobsShape

\* A claim is awaited by the request that makes it, and nobody loses one.
LEMMA ClaimKeeps ==
    ASSUME OwnedInv, NEW r \in Requests, NEW what \in StageNames \cup Scenes, NEW sort, NEW from, NEW v,
           Claim(r, what, sort, from, v), ClaimedFrom(video, v, what)
    PROVE  OwnedInv'
  <1>0. VideoShape(video) /\ JobsShape(jobs) /\ RequestsKnown /\ ClaimsKnown /\ StagesOwned
    BY DEF OwnedInv
  <1>1. video' = v /\ orphaned' = orphaned /\ jobs' = Append(jobs, Job(sort, from, "NONE", {}))
    BY DEF Claim
  <1>2. /\ Len(jobs) \in Nat /\ DOMAIN jobs = 1..Len(jobs) /\ DOMAIN jobs' = 1..Serial /\ Len(jobs') = Serial
        /\ JobsShape(jobs')
    <2>0. PICK x : x = Job(sort, from, "NONE", {})
      OBVIOUS
    <2>1. PICK j : j = Append(jobs, x)
      OBVIOUS
    <2>2. /\ Len(jobs) \in Nat /\ DOMAIN jobs = 1..Len(jobs) /\ DOMAIN j = 1..Serial /\ Len(j) = Serial
          /\ JobsShape(j)
      <3>1. DOMAIN x = {"kind", "from", "status", "covers"}
        BY <2>0 DEF Job
      <3> QED
        BY <1>0, <2>1, <3>1, Appended
    <2>3. jobs' = j
      BY <1>1, <2>0, <2>1
    <2> QED
      BY <2>2, <2>3
  <1>n. PICK new : new = Serial
    OBVIOUS
  <1>3. PICK call : call = [pc |-> "submit", what |-> what, serial |-> Serial]
    OBVIOUS
  <1>4. /\ req[r].pc = "idle" /\ DOMAIN req' = Requests /\ req'[r] = call
        /\ \A q \in Requests : q # r => req'[q] = req[q]
    BY <1>0, <1>3 DEF Claim, Begin, At, RequestsKnown
  <1>5. call.pc = "submit" /\ call.what = what /\ call.serial = Serial /\ Serial = Len(jobs) + 1
    BY <1>3 DEF Serial
  <1>6. /\ Pending(r)' /\ req'[r].serial = Serial /\ req'[r].what = what /\ req'[r].pc # "record"
        /\ \A q \in Requests : q # r => (Pending(q)' <=> Pending(q))
    BY <1>4, <1>5 DEF Pending
  <1>7. RequestsKnown'
    <2>1. \A q \in Requests : Pending(q)' =>
             /\ req'[q].serial \in DOMAIN jobs' /\ req'[q].what \in StageNames \cup Scenes
             /\ req'[q].pc = "record" => req'[q].job \in {None} \cup DOMAIN jobs'
      BY <1>0, <1>2, <1>4, <1>5, <1>6 DEF RequestsKnown
    <2>2. \A q \in Requests : q # r /\ Pending(q)' => req'[q].serial # Serial
      BY <1>0, <1>2, <1>4, <1>5, <1>6 DEF RequestsKnown
    <2>3. \A p, q \in Requests : Pending(p)' /\ Pending(q)' /\ req'[p].serial = req'[q].serial => p = q
      BY <1>0, <1>4, <1>6, <2>2 DEF RequestsKnown
    <2> QED
      BY <1>4, <2>1, <2>3 DEF RequestsKnown
  <1>8. \A k \in StageNames : v[k].claim \in {0, video[k].claim} \/ (k = what /\ v[k].claim = Serial)
    BY DEF ClaimedFrom, StageFrom
  <1>9. \A s \in DOMAIN v.scenes :
           \/ s \in DOMAIN video.scenes /\ v.scenes[s].claim = video.scenes[s].claim
           \/ v.scenes[s].claim = 0
           \/ s = what /\ s \in Scenes /\ v.scenes[s].claim = Serial
    BY DEF ClaimedFrom, SceneFrom
  <1>10. ClaimsKnown'
    <2>1. \A k \in StageNames : v[k].claim \in 0..Serial
      BY <1>0, <1>2, <1>5, <1>8 DEF ClaimsKnown
    <2>2. \A s \in DOMAIN v.scenes : v.scenes[s].claim \in 0..Serial
      BY <1>0, <1>2, <1>5, <1>9 DEF ClaimsKnown
    <2>3. ASSUME NEW q \in Requests, Pending(q)'
          PROVE  /\ \A k \in StageNames : v[k].claim = req'[q].serial => req'[q].what = k
                 /\ \A s \in DOMAIN v.scenes : v.scenes[s].claim = req'[q].serial =>
                        req'[q].what = s /\ s \in Scenes
      <3>1. CASE q = r
        <4>1. \A k \in StageNames : video[k].claim # Serial
          BY <1>0, <1>2, <1>5 DEF ClaimsKnown
        <4>2. \A s \in DOMAIN video.scenes : video.scenes[s].claim # Serial
          BY <1>0, <1>2, <1>5 DEF ClaimsKnown
        <4> QED
          BY <1>2, <1>5, <1>6, <1>8, <1>9, <3>1, <4>1, <4>2
      <3>2. CASE q # r
        <4>1. Pending(q) /\ req'[q] = req[q] /\ req[q].serial \in 1..Len(jobs)
          BY <1>0, <1>2, <1>4, <1>6, <2>3, <3>2 DEF RequestsKnown
        <4>2. req[q].serial # Serial /\ req[q].serial # 0
          BY <1>2, <1>5, <4>1
        <4> QED
          BY <1>0, <1>8, <1>9, <4>1, <4>2 DEF ClaimsKnown
      <3> QED
        BY <3>1, <3>2
    <2> QED
      BY <1>1, <1>2, <2>1, <2>2, <2>3 DEF ClaimsKnown
  <1>11. Awaited(new)' /\ \A c : Awaited(c) => Awaited(c)'
    BY <1>1, <1>4, <1>5, <1>n DEF Awaited
  <1>12. 0 # None
    BY VideoAssumption
  <1>13. StagesOwned'
    <2>1. \A k \in TextStages : v[k].status = "GENERATING" /\ v[k].job = None => Awaited(v[k].claim)'
      <3> SUFFICES ASSUME NEW k \in TextStages, v[k].status = "GENERATING", v[k].job = None
                   PROVE  Awaited(v[k].claim)'
        OBVIOUS
      <3>1. k \in StageNames
        BY Names
      <3>2. CASE v[k].claim = Serial
        BY <1>11, <1>n, <3>2
      <3>3. CASE StageFrom(video[k], v[k])
        <4>1. v[k].claim = video[k].claim /\ video[k].status = "GENERATING" /\ video[k].job = None
          BY <3>3 DEF StageFrom
        <4>2. Awaited(video[k].claim)
          BY <1>0, <4>1 DEF StagesOwned
        <4> QED
          BY <1>1, <1>11, <4>1, <4>2
      <3> QED
        BY <3>1, <3>2, <3>3 DEF ClaimedFrom
    <2>2. \A k \in {"voice", "subs", "render"} : v[k].job = Placeholder => Awaited(v[k].claim)'
      <3> SUFFICES ASSUME NEW k \in {"voice", "subs", "render"}, v[k].job = Placeholder
                   PROVE  Awaited(v[k].claim)'
        OBVIOUS
      <3>1. k \in StageNames
        BY Names
      <3>2. CASE v[k].claim = Serial
        BY <1>11, <1>n, <3>2
      <3>3. CASE StageFrom(video[k], v[k])
        <4>1. v[k].claim = video[k].claim /\ video[k].job = Placeholder
          BY <1>12, <3>3 DEF StageFrom, Placeholder
        <4>2. Awaited(video[k].claim)
          BY <1>0, <4>1 DEF StagesOwned
        <4> QED
          BY <1>1, <1>11, <4>1, <4>2
      <3> QED
        BY <3>1, <3>2, <3>3 DEF ClaimedFrom
    <2>3. \A s \in DOMAIN v.scenes : v.scenes[s].job = Placeholder => Awaited(v.scenes[s].claim)'
      <3> SUFFICES ASSUME NEW s \in DOMAIN v.scenes, v.scenes[s].job = Placeholder
                   PROVE  Awaited(v.scenes[s].claim)'
        OBVIOUS
      <3>1. CASE v.scenes[s].claim = Serial
        BY <1>11, <1>n, <3>1
      <3>2. CASE SceneFrom(video, s, v.scenes[s])
        <4>1. /\ s \in DOMAIN video.scenes /\ v.scenes[s].claim = video.scenes[s].claim
              /\ video.scenes[s].job = Placeholder
          BY <1>12, <3>2 DEF SceneFrom, Placeholder
        <4>2. Awaited(video.scenes[s].claim)
          BY <1>0, <4>1 DEF StagesOwned
        <4> QED
          BY <1>1, <1>11, <4>1, <4>2
      <3> QED
        BY <3>1, <3>2 DEF ClaimedFrom
    <2> QED
      BY <1>1, <2>1, <2>2, <2>3 DEF StagesOwned
  <1>14. VideoShape(video)'
    BY <1>1 DEF ClaimedFrom, VideoShape
  <1> QED
    BY <1>2, <1>7, <1>10, <1>13, <1>14 DEF OwnedInv

LEMMA FollowsClaim ==
    ASSUME NEW u, NEW v, NEW w, NEW what, Follows(u, v), ClaimedFrom(v, w, what)
    PROVE  ClaimedFrom(u, w, what)
  <1>1. \A k \in StageNames : StageFrom(u[k], w[k]) \/ (k = what /\ w[k].claim = Serial)
    BY StageFromTrans DEF Follows, ClaimedFrom
  <1>2. \A s \in DOMAIN w.scenes :
           SceneFrom(u, s, w.scenes[s]) \/ (s = what /\ s \in Scenes /\ w.scenes[s].claim = Serial)
    BY DEF Follows, ClaimedFrom, SceneFrom
  <1> QED
    BY <1>1, <1>2 DEF ClaimedFrom

VideoFields == {"brief", "script", "plan", "seo", "voice", "subs", "render", "scenes", "qa", "score", "columns"}

LEMMA ShapeFields == ASSUME NEW v, VideoShape(v) PROVE DOMAIN v = VideoFields
  BY Names DEF VideoShape, VideoFields

\* A new stage follows whatever was there.
LEMMA NewStage ==
    /\ \A a : StageFrom(a, NoText) /\ StageFrom(a, NoVoice) /\ StageFrom(a, NoSubs)
             /\ StageFrom(a, NoRender)
    /\ DOMAIN NoScenes = {}
  BY DEF StageFrom, NoText, NoVoice, NoSubs, NoRender, NoScenes

LEMMA RenderResetFrom ==
    ASSUME NEW v, VideoShape(v)
    PROVE  Follows(v, RenderReset(v))
  <1>1. PICK w : w = RenderReset(v)
    OBVIOUS
  <1>2. DOMAIN v = VideoFields
    BY ShapeFields
  <1>3. /\ DOMAIN w = DOMAIN v /\ w.voice = v.voice /\ w.subs = v.subs /\ w.scenes = v.scenes
        /\ w.brief = v.brief /\ w.script = v.script /\ w.plan = v.plan /\ w.seo = v.seo
        /\ w.render = NoRender
    BY <1>1, <1>2 DEF RenderReset, VideoFields
  <1>4. VideoShape(w)
    BY <1>3, Names DEF VideoShape
  <1>5. \A k \in StageNames : k # "render" => StageFrom(v[k], w[k])
    BY <1>3, Names DEF StageFrom
  <1>6. \A k \in StageNames : StageFrom(v[k], w[k])
    BY <1>3, <1>5, NewStage
  <1>7. \A s \in DOMAIN w.scenes : SceneFrom(v, s, w.scenes[s])
    BY <1>3 DEF SceneFrom
  <1> QED
    BY <1>1, <1>4, <1>6, <1>7 DEF Follows

LEMMA ScriptResetFrom ==
    ASSUME NEW v, VideoShape(v)
    PROVE  Follows(v, ScriptReset(v))
  <1>1. PICK u, w : u = RenderReset(v) /\ w = ScriptReset(v)
    OBVIOUS
  <1>2. Follows(v, u) /\ VideoShape(u) /\ DOMAIN u = VideoFields
    BY <1>1, RenderResetFrom, ShapeFields DEF Follows
  <1>3. /\ DOMAIN w = DOMAIN u /\ w.voice = NoVoice /\ w.subs = NoSubs /\ w.scenes = NoScenes
        /\ w.brief = u.brief /\ w.script = u.script /\ w.plan = NoText /\ w.seo = NoText
        /\ w.render = u.render
    BY <1>1, <1>2 DEF ScriptReset, VideoFields
  <1>4. VideoShape(w)
    BY <1>2, <1>3, NewStage, Names DEF VideoShape
  <1>5. StageFrom(u.brief, w.brief) /\ StageFrom(u.script, w.script) /\ StageFrom(u.render, w.render)
    BY <1>3 DEF StageFrom
  <1>6. \A k \in StageNames : StageFrom(u[k], w[k])
    BY <1>3, <1>5, NewStage, Names
  <1>7. \A s \in DOMAIN w.scenes : SceneFrom(u, s, w.scenes[s])
    BY <1>3, NewStage
  <1>8. Follows(u, w)
    BY <1>4, <1>6, <1>7 DEF Follows
  <1> QED
    BY <1>1, <1>2, <1>8, FollowsTrans

\* A claim changes its stage and what of the QA report and the score it resets.
LEMMA TextClaimed ==
    ASSUME NEW v, VideoShape(v), NEW w, NEW k \in TextStages, DOMAIN w = DOMAIN v, w[k] = Generating,
           \A f \in DOMAIN v : f \notin {k, "qa", "score"} => w[f] = v[f]
    PROVE  ClaimedFrom(v, w, k)
  <1>1. DOMAIN v = VideoFields /\ k \notin {"qa", "score", "scenes", "voice", "subs", "render"}
    BY ShapeFields, Names
  <1>2. w.scenes = v.scenes /\ w.voice = v.voice /\ w.subs = v.subs /\ w.render = v.render
    BY <1>1 DEF VideoFields
  <1>3. \A j \in TextStages : w[j] = IF j = k THEN Generating ELSE v[j]
    BY <1>1, Names DEF VideoFields
  <1>4. DOMAIN Generating = DOMAIN NoText /\ Generating.claim = Serial
    BY Fields DEF Generating, NoText
  <1>5. VideoShape(w)
    BY <1>2, <1>3, <1>4 DEF VideoShape
  <1>6. \A j \in StageNames : StageFrom(v[j], w[j]) \/ (j = k /\ w[j].claim = Serial)
    <2> SUFFICES ASSUME NEW j \in StageNames, j # k PROVE StageFrom(v[j], w[j])
      BY <1>4
    <2>1. w[j] = v[j]
      BY <1>2, <1>3, Names
    <2> QED
      BY <2>1 DEF StageFrom
  <1>7. \A s \in DOMAIN w.scenes : SceneFrom(v, s, w.scenes[s])
    BY <1>2 DEF SceneFrom
  <1> QED
    BY <1>5, <1>6, <1>7 DEF ClaimedFrom

LEMMA ClaimStageKeeps ==
    ASSUME OwnedInv, NEW r \in Requests, NEW k \in TextStages, ClaimStage(r, k)
    PROVE  OwnedInv'
  <1>0. VideoShape(video)
    BY DEF OwnedInv
  <1>1. PICK v : v = Finalized
    OBVIOUS
  <1>2. Follows(video, v) /\ VideoShape(v)
    BY <1>0, <1>1, FinalizedFrom DEF Follows
  <1>3. k \in StageNames \cup Scenes
    BY Names
  <1>4. SUFFICES \E sort, from, w : Claim(r, k, sort, from, w) /\ ClaimedFrom(v, w, k)
    BY <1>2, <1>3, FollowsClaim, ClaimKeeps
  <1>5. PICK x, y : x = ScriptReset(v) /\ y = RenderReset(v)
    OBVIOUS
  <1>6. Follows(v, x) /\ VideoShape(x) /\ DOMAIN x = VideoFields
    BY <1>2, <1>5, ScriptResetFrom, ShapeFields DEF Follows
  <1>7. Follows(v, y) /\ VideoShape(y) /\ DOMAIN y = VideoFields /\ DOMAIN v = VideoFields
    BY <1>2, <1>5, RenderResetFrom, ShapeFields DEF Follows
  <1>8. CASE k = "brief"
    <2>1. PICK u : u = [x EXCEPT !.script = NoText]
      OBVIOUS
    <2>2. /\ DOMAIN u = DOMAIN x /\ u.script = NoText
          /\ \A f \in VideoFields : f # "script" => u[f] = x[f]
      BY <1>6, <2>1 DEF VideoFields
    <2>3. Follows(x, u)
      <3>1. VideoShape(u)
        BY <1>6, <2>2, Names DEF VideoShape, VideoFields
      <3>2. \A j \in StageNames : StageFrom(x[j], u[j])
        BY <2>2, NewStage, Names DEF VideoFields, StageFrom
      <3>3. \A s \in DOMAIN u.scenes : SceneFrom(x, s, u.scenes[s])
        BY <2>2 DEF VideoFields, SceneFrom
      <3> QED
        BY <3>1, <3>2, <3>3 DEF Follows
    <2>4. PICK w : w = [x EXCEPT !.brief = Generating, !.script = NoText]
      OBVIOUS
    <2>5. DOMAIN w = DOMAIN u /\ w[k] = Generating /\ \A f \in DOMAIN u : f # k => w[f] = u[f]
      BY <1>6, <1>8, <2>2, <2>4 DEF VideoFields
    <2>6. ClaimedFrom(u, w, k)
      BY <2>3, <2>5, TextClaimed DEF Follows
    <2>7. ClaimedFrom(v, w, k)
      BY <1>6, <2>3, <2>6, FollowsClaim, FollowsTrans
    <2>8. Claim(r, k, k, <<>>, w)
      BY <1>1, <1>5, <1>8, <2>4 DEF ClaimStage
    <2> QED
      BY <2>7, <2>8
  <1>9. CASE k = "script"
    <2>1. PICK w : w = [x EXCEPT !.script = Generating]
      OBVIOUS
    <2>2. DOMAIN w = DOMAIN x /\ w[k] = Generating /\ \A f \in DOMAIN x : f # k => w[f] = x[f]
      BY <1>6, <1>9, <2>1 DEF VideoFields
    <2>3. ClaimedFrom(v, w, k)
      BY <1>6, <2>2, TextClaimed, FollowsClaim
    <2>4. Claim(r, k, k, <<v.brief.artifact>>, w)
      BY <1>1, <1>5, <1>9, <2>1 DEF ClaimStage
    <2> QED
      BY <2>3, <2>4
  <1>10. CASE k = "plan"
    <2>1. PICK w : w = [y EXCEPT !.plan = Generating]
      OBVIOUS
    <2>2. DOMAIN w = DOMAIN y /\ w[k] = Generating /\ \A f \in DOMAIN y : f # k => w[f] = y[f]
      BY <1>7, <1>10, <2>1 DEF VideoFields
    <2>3. ClaimedFrom(v, w, k)
      BY <1>7, <2>2, TextClaimed, FollowsClaim
    <2>4. Claim(r, k, k, <<v.script.artifact>>, w)
      BY <1>1, <1>5, <1>10, <2>1 DEF ClaimStage
    <2> QED
      BY <2>3, <2>4
  <1>11. CASE k = "seo"
    <2>1. PICK w : w = [v EXCEPT !.seo = Generating, !.score = NoScore]
      OBVIOUS
    <2>2. DOMAIN w = DOMAIN v /\ w[k] = Generating /\ \A f \in DOMAIN v : f \notin {k, "score"} => w[f] = v[f]
      BY <1>7, <1>11, <2>1 DEF VideoFields
    <2>3. ClaimedFrom(v, w, k)
      BY <1>2, <2>2, TextClaimed
    <2>4. Claim(r, k, k, <<v.script.artifact>>, w)
      BY <1>1, <1>11, <2>1 DEF ClaimStage
    <2> QED
      BY <2>3, <2>4
  <1> QED
    BY <1>8, <1>9, <1>10, <1>11, Names

LEMMA MediaClaimKeeps ==
    ASSUME OwnedInv, NEW r \in Requests,
           \/ \E s \in Scenes : GenerateSceneImage(r, s)
           \/ \E p \in Profiles : GenerateVoice(r, p)
           \/ GenerateSubtitles(r)
    PROVE  OwnedInv'
  <1>0. VideoShape(video)
    BY DEF OwnedInv
  <1>1. PICK v : v = Media(video)
    OBVIOUS
  <1>2. Follows(video, v) /\ VideoShape(v) /\ DOMAIN v = VideoFields
    BY <1>0, <1>1, MediaFrom, ShapeFields DEF Follows
  <1>3. SUFFICES \E what \in StageNames \cup Scenes : \E sort, from, w :
                    Claim(r, what, sort, from, w) /\ ClaimedFrom(v, w, what)
    BY <1>2, FollowsClaim, ClaimKeeps
  <1>4. ASSUME NEW s \in Scenes, GenerateSceneImage(r, s)
        PROVE  \E sort, from, w : Claim(r, s, sort, from, w) /\ ClaimedFrom(v, w, s)
    <2>1. PICK w : w = [v EXCEPT !.scenes[s].job = Placeholder, !.scenes[s].claim = Serial]
      OBVIOUS
    <2>2. s \in DOMAIN v.scenes /\ Claim(r, s, "image", <<s, v.plan.artifact>>, w)
      BY <1>1, <1>4, <2>1 DEF GenerateSceneImage
    <2>3. /\ DOMAIN w = VideoFields /\ \A f \in VideoFields : f # "scenes" => w[f] = v[f]
          /\ DOMAIN w.scenes = DOMAIN v.scenes
          /\ \A x \in DOMAIN v.scenes : x # s => w.scenes[x] = v.scenes[x]
          /\ w.scenes[s].claim = Serial /\ DOMAIN w.scenes[s] = DOMAIN NoScene
      BY <1>2, <2>1, <2>2, Fields DEF VideoFields, VideoShape
    <2>4. /\ w.brief = v.brief /\ w.script = v.script /\ w.plan = v.plan /\ w.seo = v.seo
          /\ w.voice = v.voice /\ w.subs = v.subs /\ w.render = v.render
      BY <2>3 DEF VideoFields
    <2>5. VideoShape(w)
      BY <1>2, <2>3, <2>4, Names DEF VideoShape
    <2>6. \A k \in StageNames : StageFrom(v[k], w[k])
      BY <2>4, Names DEF StageFrom
    <2>7. ClaimedFrom(v, w, s)
      BY <2>3, <2>5, <2>6 DEF ClaimedFrom, SceneFrom
    <2> QED
      BY <2>2, <2>7
  <1>5. ASSUME NEW p \in Profiles, GenerateVoice(r, p)
        PROVE  \E sort, from, w : Claim(r, "voice", sort, from, w) /\ ClaimedFrom(v, w, "voice")
    <2>0. PICK a, b : /\ a = [NoVoice EXCEPT !.status = "RUNNING", !.claim = Serial, !.job = Placeholder]
                      /\ b = IF v.subs.status = "PENDING" THEN v.subs ELSE NoSubs
      OBVIOUS
    <2>1. PICK w : w = [v EXCEPT !.voice = a, !.subs = b]
      OBVIOUS
    <2>2. Claim(r, "voice", "voice", <<p, v.script.artifact>>, w)
      BY <1>1, <1>2, <1>5, <2>0, <2>1 DEF GenerateVoice, VideoFields
    <2>3. DOMAIN w = VideoFields /\ w.voice = a /\ w.subs = b
          /\ \A f \in VideoFields : f \notin {"voice", "subs"} => w[f] = v[f]
      BY <1>2, <2>1 DEF VideoFields
    <2>4. /\ w.brief = v.brief /\ w.script = v.script /\ w.plan = v.plan /\ w.seo = v.seo
          /\ w.scenes = v.scenes /\ w.render = v.render
      BY <2>3 DEF VideoFields
    <2>5. DOMAIN a = DOMAIN NoVoice /\ a.claim = Serial /\ DOMAIN b = DOMAIN NoSubs /\ StageFrom(v.subs, b)
      BY <1>2, <2>0, NewStage, Fields DEF VideoShape, StageFrom
    <2>6. VideoShape(w)
      BY <1>2, <2>3, <2>4, <2>5, Names DEF VideoShape, VideoFields
    <2>7. \A k \in StageNames : StageFrom(v[k], w[k]) \/ (k = "voice" /\ w[k].claim = Serial)
      BY <2>3, <2>4, <2>5, Names DEF StageFrom
    <2>8. \A s \in DOMAIN w.scenes : SceneFrom(v, s, w.scenes[s])
      BY <2>4 DEF SceneFrom
    <2> QED
      BY <2>2, <2>6, <2>7, <2>8 DEF ClaimedFrom
  <1>6. ASSUME GenerateSubtitles(r)
        PROVE  \E sort, from, w : Claim(r, "subs", sort, from, w) /\ ClaimedFrom(v, w, "subs")
    <2>0. PICK b : b = [v.subs EXCEPT !.status = "RUNNING", !.claim = Serial, !.job = Placeholder, !.vtt = None]
      OBVIOUS
    <2>1. PICK w : w = [v EXCEPT !.subs = b]
      OBVIOUS
    <2>2. Claim(r, "subs", "subs", <<v.voice.audio>>, w)
      BY <1>1, <1>2, <1>6, <2>0, <2>1 DEF GenerateSubtitles, VideoFields
    <2>3. DOMAIN w = VideoFields /\ w.subs = b /\ \A f \in VideoFields : f # "subs" => w[f] = v[f]
      BY <1>2, <2>1 DEF VideoFields
    <2>4. /\ w.brief = v.brief /\ w.script = v.script /\ w.plan = v.plan /\ w.seo = v.seo
          /\ w.scenes = v.scenes /\ w.render = v.render /\ w.voice = v.voice
      BY <2>3 DEF VideoFields
    <2>5. DOMAIN b = DOMAIN NoSubs /\ b.claim = Serial
      BY <1>2, <2>0, Fields DEF VideoShape
    <2>6. VideoShape(w)
      BY <1>2, <2>3, <2>4, <2>5, Names DEF VideoShape, VideoFields
    <2>7. \A k \in StageNames : StageFrom(v[k], w[k]) \/ (k = "subs" /\ w[k].claim = Serial)
      BY <2>3, <2>4, <2>5, Names DEF StageFrom
    <2>8. \A s \in DOMAIN w.scenes : SceneFrom(v, s, w.scenes[s])
      BY <2>4 DEF SceneFrom
    <2> QED
      BY <2>2, <2>6, <2>7, <2>8 DEF ClaimedFrom
  <1> QED
    BY <1>4, <1>5, <1>6, Names

LEMMA SubmitRenderKeeps ==
    ASSUME OwnedInv, NEW r \in Requests, SubmitRender(r)
    PROVE  OwnedInv'
  <1>1. PICK v : v = Reconciled(video)
    OBVIOUS
  <1>2. Follows(video, v) /\ VideoShape(v) /\ DOMAIN v = VideoFields
    BY <1>1, ReconciledFrom, ShapeFields DEF Follows, OwnedInv
  <1>3. PICK a : a = [status |-> "RUNNING", job |-> Placeholder, claim |-> Serial]
    OBVIOUS
  <1>4. PICK w : w = [v EXCEPT !.render = a, !.qa = NoQa]
    OBVIOUS
  <1>5. Claim(r, "render", "render", <<Frozen(v), v.plan.artifact, Upstream(v)>>, w)
    BY <1>1, <1>3, <1>4 DEF SubmitRender
  <1>6. /\ DOMAIN w = VideoFields /\ w.render = a
        /\ w.brief = v.brief /\ w.script = v.script /\ w.plan = v.plan /\ w.seo = v.seo
        /\ w.scenes = v.scenes /\ w.voice = v.voice /\ w.subs = v.subs
    BY <1>2, <1>4 DEF VideoFields
  <1>7. DOMAIN a = DOMAIN NoRender /\ a.claim = Serial
    BY <1>3, Fields
  <1>8. VideoShape(w)
    BY <1>2, <1>6, <1>7, Names DEF VideoShape
  <1>9. \A k \in StageNames : StageFrom(v[k], w[k]) \/ (k = "render" /\ w[k].claim = Serial)
    BY <1>6, <1>7, Names DEF StageFrom
  <1>10. \A s \in DOMAIN w.scenes : SceneFrom(v, s, w.scenes[s])
    BY <1>6 DEF SceneFrom
  <1>11. ClaimedFrom(video, w, "render")
    <2>1. ClaimedFrom(v, w, "render")
      BY <1>8, <1>9, <1>10 DEF ClaimedFrom
    <2> QED
      BY <1>2, <2>1, FollowsClaim
  <1>12. "render" \in StageNames \cup Scenes
    BY Names
  <1> QED
    BY <1>5, <1>11, <1>12, ClaimKeeps

-----------------------------------------------------------------------------
\* A change of one job leaves the shape of the list.
LEMMA JobChanges ==
    ASSUME NEW js, JobsShape(js), NEW i \in DOMAIN js, NEW y, DOMAIN y = DOMAIN js[i],
           NEW j, j = [js EXCEPT ![i] = y]
    PROVE  JobsShape(j) /\ DOMAIN j = DOMAIN js /\ Len(j) = Len(js)
  <1> DEFINE S == {js[n] : n \in DOMAIN js}
             U == {j[n] : n \in DOMAIN j}
  <1>1. js \in Seq(S) /\ \A n \in DOMAIN js : DOMAIN js[n] = {"kind", "from", "status", "covers"}
    BY DEF JobsShape
  <1> HIDE DEF S
  <1>2. Len(js) \in Nat /\ DOMAIN js = 1..Len(js)
    BY <1>1
  <1>3. /\ DOMAIN j = DOMAIN js
        /\ \A n \in DOMAIN js : n # i => j[n] = js[n]
        /\ DOMAIN j[i] = DOMAIN js[i]
    BY <1>1
  <1>4. j \in [1..Len(js) -> U]
    BY <1>2, <1>3
  <1> HIDE DEF U
  <1>5. j \in Seq(U) /\ Len(j) = Len(js)
    <2>1. PICK k \in Nat : k = Len(js)
      BY <1>2
    <2>2. j \in [1..k -> U]
      BY <1>4, <2>1
    <2>3. j \in Seq(U) /\ Len(j) = k
      BY ONLY <2>2, k \in Nat
    <2> QED
      BY <2>1, <2>3
  <1>6. JobsShape(j)
    BY <1>1, <1>3, <1>5 DEF JobsShape, U
  <1> QED
    BY <1>3, <1>5, <1>6

\* A step that takes no number and records nothing: what is pending stays so, or
\* is left to the orphans.
LEMMA StepKeeps ==
    ASSUME OwnedInv, Follows(video, video'), JobsShape(jobs'), DOMAIN jobs' = DOMAIN jobs,
           Len(jobs') = Len(jobs), DOMAIN req' = Requests,
           \A q \in Requests : Pending(q)' =>
               /\ Pending(q) /\ req'[q].serial = req[q].serial /\ req'[q].what = req[q].what
               /\ req'[q].pc = "record" => req'[q].job \in {None} \cup DOMAIN jobs,
           \A c : Awaited(c) => Awaited(c)'
    PROVE  OwnedInv'
  <1>0. VideoShape(video) /\ JobsShape(jobs) /\ RequestsKnown /\ ClaimsKnown /\ StagesOwned
    BY DEF OwnedInv
  <1>1. PICK w : w = video'
    OBVIOUS
  <1>2. Follows(video, w) /\ 0 # None
    BY <1>1, VideoAssumption
  <1>3. RequestsKnown'
    BY <1>0 DEF RequestsKnown
  <1>4. \A k \in StageNames : w[k].claim \in {0, video[k].claim}
    BY <1>2 DEF Follows, StageFrom
  <1>5. \A s \in DOMAIN w.scenes :
           \/ s \in DOMAIN video.scenes /\ w.scenes[s].claim = video.scenes[s].claim
           \/ w.scenes[s].claim = 0
    BY <1>2 DEF Follows, SceneFrom
  <1>6. Len(jobs) \in Nat /\ DOMAIN jobs = 1..Len(jobs)
    BY <1>0 DEF JobsShape
  <1>7. ClaimsKnown'
    <2>1. \A k \in StageNames : w[k].claim \in 0..Len(jobs)
      BY <1>0, <1>4, <1>6 DEF ClaimsKnown
    <2>2. \A s \in DOMAIN w.scenes : w.scenes[s].claim \in 0..Len(jobs)
      BY <1>0, <1>5, <1>6 DEF ClaimsKnown
    <2>3. ASSUME NEW q \in Requests, Pending(q)'
          PROVE  /\ \A k \in StageNames : w[k].claim = req'[q].serial => req'[q].what = k
                 /\ \A s \in DOMAIN w.scenes : w.scenes[s].claim = req'[q].serial =>
                        req'[q].what = s /\ s \in Scenes
      <3>1. Pending(q) /\ req'[q].serial = req[q].serial /\ req'[q].what = req[q].what
        BY <2>3
      <3>2. req[q].serial # 0
        BY <1>0, <1>6, <3>1 DEF RequestsKnown
      <3> QED
        BY <1>0, <1>4, <1>5, <3>1, <3>2 DEF ClaimsKnown
    <2> QED
      BY <1>1, <2>1, <2>2, <2>3 DEF ClaimsKnown
  <1>8. StagesOwned'
    <2>1. \A k \in TextStages : w[k].status = "GENERATING" /\ w[k].job = None => Awaited(w[k].claim)'
      BY <1>0, <1>2, Names DEF Follows, StageFrom, StagesOwned
    <2>2. \A k \in {"voice", "subs", "render"} : w[k].job = Placeholder => Awaited(w[k].claim)'
      BY <1>0, <1>2, Names DEF Follows, StageFrom, StagesOwned, Placeholder
    <2>3. \A s \in DOMAIN w.scenes : w.scenes[s].job = Placeholder => Awaited(w.scenes[s].claim)'
      BY <1>0, <1>2 DEF Follows, SceneFrom, StagesOwned, Placeholder
    <2> QED
      BY <1>1, <2>1, <2>2, <2>3 DEF StagesOwned
  <1>9. VideoShape(video)'
    BY <1>1, <1>2 DEF Follows, VideoShape
  <1> QED
    BY <1>3, <1>7, <1>8, <1>9 DEF OwnedInv

LEMMA FollowsSelf == ASSUME NEW v, VideoShape(v) PROVE Follows(v, v) /\ SameRender(v, v)
  BY DEF Follows, StageFrom, SceneFrom, SameRender

LEMMA SubmitJobKeeps ==
    ASSUME OwnedInv, NEW r \in Requests, SubmitJob(r)
    PROVE  OwnedInv'
  <1>0. VideoShape(video) /\ JobsShape(jobs) /\ RequestsKnown
    BY DEF OwnedInv
  <1>1. PICK i : i = req[r].serial
    OBVIOUS
  <1>2. i \in DOMAIN jobs /\ Pending(r) /\ UNCHANGED <<video, orphaned>>
    BY <1>0, <1>1 DEF SubmitJob, At, Pending, RequestsKnown
  <1>3. jobs' = jobs \/ \E x : jobs' = [jobs EXCEPT ![i].status = x]
    BY <1>1 DEF SubmitJob
  <1>4. JobsShape(jobs') /\ DOMAIN jobs' = DOMAIN jobs /\ Len(jobs') = Len(jobs)
    <2>1. CASE jobs' = jobs
      BY <1>0, <2>1
    <2>2. CASE \E x : jobs' = [jobs EXCEPT ![i].status = x]
      <3> PICK x : jobs' = [jobs EXCEPT ![i].status = x]
        BY <2>2
      <3>1. PICK j : j = [jobs EXCEPT ![i].status = x]
        OBVIOUS
      <3>2. JobsShape(j) /\ DOMAIN j = DOMAIN jobs /\ Len(j) = Len(jobs)
        <4>1. DOMAIN j[i] = DOMAIN jobs[i] /\ j = [jobs EXCEPT ![i] = j[i]]
          BY <1>2, <3>1
        <4> QED
          BY <1>0, <1>2, <4>1, JobChanges
      <3> QED
        BY <3>1, <3>2
    <2> QED
      BY <1>3, <2>1, <2>2
  <1>5. PICK n \in {None} \cup DOMAIN jobs : Submitted(r, n)
    BY <1>1, <1>2 DEF SubmitJob, Reusable
  <1>6. PICK call : call = [pc |-> "record", what |-> req[r].what, serial |-> req[r].serial, job |-> n]
    OBVIOUS
  <1>7. /\ DOMAIN req' = Requests /\ req'[r] = call /\ \A q \in Requests : q # r => req'[q] = req[q]
    BY <1>0, <1>5, <1>6 DEF Submitted, RequestsKnown
  <1>8. call.pc = "record" /\ call.what = req[r].what /\ call.serial = req[r].serial /\ call.job = n
    BY <1>6
  <1>9. \A c : Awaited(c) => Awaited(c)'
    <2> SUFFICES ASSUME NEW c, Awaited(c) PROVE Awaited(c)'
      OBVIOUS
    <2>1. CASE c \in orphaned
      BY <1>2, <2>1 DEF Awaited
    <2>2. CASE \E q \in Requests : req[q].pc \in {"submit", "record"} /\ req[q].serial = c
      BY <1>7, <1>8, <2>2 DEF Awaited
    <2> QED
      BY <2>1, <2>2 DEF Awaited
  <1>10. \A q \in Requests : Pending(q)' =>
               /\ Pending(q) /\ req'[q].serial = req[q].serial /\ req'[q].what = req[q].what
               /\ req'[q].pc = "record" => req'[q].job \in {None} \cup DOMAIN jobs
    BY <1>0, <1>2, <1>5, <1>7, <1>8 DEF Pending, RequestsKnown
  <1>11. Follows(video, video')
    BY <1>0, <1>2, FollowsSelf
  <1> QED
    BY <1>4, <1>7, <1>9, <1>10, <1>11, StepKeeps

\* A request that begins something else, ends it or goes on has no number.
LEMMA OtherRequests ==
    ASSUME OwnedInv, NEW r \in Requests, NEW call, req' = [req EXCEPT ![r] = call],
           call.pc \notin {"submit", "record"}, ~Pending(r), UNCHANGED orphaned,
           Follows(video, video'), UNCHANGED jobs
    PROVE  OwnedInv'
  <1>0. VideoShape(video) /\ JobsShape(jobs) /\ RequestsKnown
    BY DEF OwnedInv
  <1>1. /\ DOMAIN req' = Requests /\ req'[r] = call /\ \A q \in Requests : q # r => req'[q] = req[q]
    BY <1>0 DEF RequestsKnown
  <1>2. \A c : Awaited(c) => Awaited(c)'
    BY <1>1 DEF Awaited, Pending
  <1>3. \A q \in Requests : Pending(q)' => Pending(q) /\ req'[q] = req[q]
    BY <1>1 DEF Pending
  <1>4. \A q \in Requests : Pending(q)' =>
               /\ Pending(q) /\ req'[q].serial = req[q].serial /\ req'[q].what = req[q].what
               /\ req'[q].pc = "record" => req'[q].job \in {None} \cup DOMAIN jobs
    BY <1>0, <1>3 DEF RequestsKnown
  <1> QED
    BY <1>0, <1>1, <1>2, <1>4, StepKeeps

LEMMA QuietStep ==
    ASSUME OwnedInv, UNCHANGED <<req, orphaned>>, Follows(video, video'), JobsShape(jobs'),
           DOMAIN jobs' = DOMAIN jobs, Len(jobs') = Len(jobs)
    PROVE  OwnedInv'
  <1>0. RequestsKnown
    BY DEF OwnedInv
  <1>2. \A c : Awaited(c) => Awaited(c)'
    BY DEF Awaited
  <1>4. \A q \in Requests : Pending(q)' =>
               /\ Pending(q) /\ req'[q].serial = req[q].serial /\ req'[q].what = req[q].what
               /\ req'[q].pc = "record" => req'[q].job \in {None} \cup DOMAIN jobs
    BY <1>0 DEF RequestsKnown, Pending
  <1>5. DOMAIN req' = Requests
    BY <1>0 DEF RequestsKnown
  <1> QED
    BY <1>2, <1>4, <1>5, StepKeeps

LEMMA AbortKeeps ==
    ASSUME OwnedInv, NEW r \in Requests, Abort(r)
    PROVE  OwnedInv'
  <1>0. VideoShape(video) /\ JobsShape(jobs) /\ RequestsKnown
    BY DEF OwnedInv
  <1>1. /\ DOMAIN req' = Requests /\ req'[r] = Idle /\ \A q \in Requests : q # r => req'[q] = req[q]
        /\ Idle.pc = "idle"
    BY <1>0 DEF Abort, Done, RequestsKnown, Idle
  <1>2. orphaned' = IF Pending(r) THEN orphaned \cup {req[r].serial} ELSE orphaned
    BY DEF Abort, Pending
  <1>3. \A c : Awaited(c) => Awaited(c)'
    BY <1>1, <1>2 DEF Awaited, Pending
  <1>4. \A q \in Requests : Pending(q)' => Pending(q) /\ req'[q] = req[q]
    BY <1>1 DEF Pending
  <1>5. \A q \in Requests : Pending(q)' =>
               /\ Pending(q) /\ req'[q].serial = req[q].serial /\ req'[q].what = req[q].what
               /\ req'[q].pc = "record" => req'[q].job \in {None} \cup DOMAIN jobs
    BY <1>0, <1>4 DEF RequestsKnown
  <1>6. Follows(video, video') /\ jobs' = jobs
    BY <1>0, FollowsSelf DEF Abort
  <1> QED
    BY <1>0, <1>1, <1>3, <1>5, <1>6, StepKeeps

\* What is recorded settles the stage of the request, and no other one has its
\* number.
LEMMA RecordJobKeeps ==
    ASSUME OwnedInv, NEW r \in Requests, RecordJob(r)
    PROVE  OwnedInv' /\ Upstream(video') = Upstream(video)
  <1>0. VideoShape(video) /\ JobsShape(jobs) /\ RequestsKnown /\ ClaimsKnown /\ StagesOwned
    BY DEF OwnedInv
  <1>1. PICK what, n, c : what = req[r].what /\ n = req[r].job /\ c = req[r].serial
    OBVIOUS
  <1>2. /\ Pending(r) /\ what \in StageNames \cup Scenes /\ n \in {None} \cup DOMAIN jobs
        /\ UNCHANGED <<jobs, orphaned>>
    BY <1>0, <1>1 DEF RecordJob, At, Pending, RequestsKnown
  <1>3. DOMAIN video = VideoFields /\ DOMAIN jobs = 1..Len(jobs) /\ 0 # None
    BY <1>0, ShapeFields, VideoAssumption DEF JobsShape
  <1>4. n # Placeholder
    BY <1>2, <1>3 DEF Placeholder
  <1>5. PICK w : w = video'
    OBVIOUS
  <1>6. /\ VideoShape(w)
        /\ \A k \in StageNames : /\ w[k].claim = video[k].claim
                                 /\ k # what => w[k] = video[k]
        /\ what \in TextStages => ~(w[what].status = "GENERATING" /\ w[what].job = None)
        /\ what \in {"voice", "subs", "render"} => w[what].job # Placeholder
        /\ DOMAIN w.scenes = DOMAIN video.scenes
        /\ \A s \in DOMAIN w.scenes : /\ w.scenes[s].claim = video.scenes[s].claim
                                      /\ what \notin Scenes \/ s # what => w.scenes[s] = video.scenes[s]
                                      /\ what \in Scenes /\ s = what => w.scenes[s].job # Placeholder
    <2>1. CASE what \in Scenes
      <3>1. w = SceneRecorded(what, n) /\ what \notin StageNames
        BY <1>1, <1>5, <2>1, VideoAssumption DEF RecordJob
      <3>2. /\ DOMAIN w = VideoFields /\ \A f \in VideoFields : f # "scenes" => w[f] = video[f]
            /\ DOMAIN w.scenes = DOMAIN video.scenes
            /\ \A s \in DOMAIN w.scenes : /\ w.scenes[s].claim = video.scenes[s].claim
                                          /\ DOMAIN w.scenes[s] = DOMAIN NoScene
                                          /\ s # what => w.scenes[s] = video.scenes[s]
                                          /\ s = what => w.scenes[s].job = n
        BY <1>0, <1>3, <3>1, Fields DEF SceneRecorded, VideoFields, VideoShape
      <3>3. \A k \in StageNames : w[k] = video[k]
        BY <3>2, Names DEF VideoFields
      <3>4. VideoShape(w)
        BY <1>0, <3>2, <3>3, Names DEF VideoShape, VideoFields
      <3> QED
        BY <1>4, <2>1, <3>1, <3>2, <3>3, <3>4, Names
    <2>2. CASE what \notin Scenes
      <3>1. what \in StageNames
        BY <1>2, <2>2
      <3>2. PICK old, b : old = video[what] /\ b = Recorded(old, what, n)
        OBVIOUS
      <3>3. w = [video EXCEPT ![what] = b]
        BY <1>1, <1>5, <2>2, <3>2 DEF RecordJob
      <3>4. /\ DOMAIN w = VideoFields /\ w[what] = b
            /\ \A f \in VideoFields : f # what => w[f] = video[f]
        BY <1>3, <3>1, <3>3, Names DEF VideoFields
      <3>5. /\ DOMAIN b = DOMAIN old /\ b.claim = old.claim
            /\ what \in TextStages => ~(b.status = "GENERATING" /\ b.job = None)
            /\ what \notin TextStages => b.job = n
        <4>1. DOMAIN old \in {DOMAIN NoText, DOMAIN NoVoice, DOMAIN NoSubs, DOMAIN NoRender}
          BY <1>0, <3>1, <3>2, Names DEF VideoShape
        <4>2. {"status", "job", "claim"} \subseteq DOMAIN old
          BY <4>1, Fields
        <4>3. CASE n = None
          BY <3>2, <4>2, <4>3 DEF Recorded, WithoutJob
        <4>4. CASE n # None
          BY <3>2, <4>2, <4>4 DEF Recorded
        <4> QED
          BY <4>3, <4>4
      <3>6. w.scenes = video.scenes
        BY <3>1, <3>4, Names DEF VideoFields
      <3>7. VideoShape(w)
        BY <1>0, <3>1, <3>2, <3>4, <3>5, <3>6, Names DEF VideoShape, VideoFields
      <3>8. \A k \in StageNames : w[k].claim = video[k].claim /\ (k # what => w[k] = video[k])
        BY <3>2, <3>4, <3>5, Names DEF VideoFields
      <3>9. what \in {"voice", "subs", "render"} => w[what].job # Placeholder
        BY <1>4, <3>4, <3>5, Names
      <3> QED
        BY <2>2, <3>4, <3>5, <3>6, <3>7, <3>8, <3>9
    <2> QED
      BY <2>1, <2>2
  <1>7. /\ DOMAIN req' = Requests /\ req'[r] = Idle /\ \A q \in Requests : q # r => req'[q] = req[q]
        /\ Idle.pc = "idle"
    BY <1>0 DEF RecordJob, Done, RequestsKnown, Idle
  <1>8. \A q \in Requests : Pending(q)' => Pending(q) /\ req'[q] = req[q]
    BY <1>7 DEF Pending
  <1>9. RequestsKnown'
    BY <1>0, <1>2, <1>7, <1>8 DEF RequestsKnown
  <1>10. ClaimsKnown'
    BY <1>0, <1>2, <1>5, <1>6, <1>8 DEF ClaimsKnown
  <1>11. \A x : Awaited(x) /\ x # c => Awaited(x)'
    BY <1>1, <1>2, <1>7 DEF Awaited
  <1>12. StagesOwned'
    <2>1. \A k \in TextStages : w[k].status = "GENERATING" /\ w[k].job = None => Awaited(w[k].claim)'
      <3> SUFFICES ASSUME NEW k \in TextStages, w[k].status = "GENERATING", w[k].job = None
                   PROVE  Awaited(w[k].claim)'
        OBVIOUS
      <3>1. k # what /\ k \in StageNames
        BY <1>6, Names
      <3>2. w[k] = video[k] /\ video[k].claim # c
        BY <1>0, <1>1, <1>2, <1>6, <3>1 DEF ClaimsKnown
      <3>3. Awaited(video[k].claim)
        BY <1>0, <3>2 DEF StagesOwned
      <3> QED
        BY <1>11, <3>2, <3>3
    <2>2. \A k \in {"voice", "subs", "render"} : w[k].job = Placeholder => Awaited(w[k].claim)'
      <3> SUFFICES ASSUME NEW k \in {"voice", "subs", "render"}, w[k].job = Placeholder
                   PROVE  Awaited(w[k].claim)'
        OBVIOUS
      <3>1. k # what /\ k \in StageNames
        BY <1>6, Names
      <3>2. w[k] = video[k] /\ video[k].claim # c
        BY <1>0, <1>1, <1>2, <1>6, <3>1 DEF ClaimsKnown
      <3>3. Awaited(video[k].claim)
        BY <1>0, <3>2 DEF StagesOwned
      <3> QED
        BY <1>11, <3>2, <3>3
    <2>3. \A s \in DOMAIN w.scenes : w.scenes[s].job = Placeholder => Awaited(w.scenes[s].claim)'
      <3> SUFFICES ASSUME NEW s \in DOMAIN w.scenes, w.scenes[s].job = Placeholder
                   PROVE  Awaited(w.scenes[s].claim)'
        OBVIOUS
      <3>1. ~(what \in Scenes /\ s = what) /\ s \in DOMAIN video.scenes
        BY <1>6
      <3>2. w.scenes[s] = video.scenes[s]
        BY <1>6, <3>1
      <3>3. video.scenes[s].claim # c
        BY <1>0, <1>1, <1>2, <3>1 DEF ClaimsKnown
      <3>4. Awaited(video.scenes[s].claim)
        BY <1>0, <3>1, <3>2 DEF StagesOwned
      <3> QED
        BY <1>11, <3>2, <3>3, <3>4
    <2> QED
      BY <1>5, <2>1, <2>2, <2>3 DEF StagesOwned
  <1>13. VideoShape(video)'
    BY <1>5, <1>6 DEF VideoShape
  <1>14. OwnedInv'
    BY <1>0, <1>2, <1>9, <1>10, <1>12, <1>13 DEF OwnedInv, JobsShape
  <1>15. Upstream(w) = Upstream(video)
    BY <1>6, Names DEF Upstream
  <1> QED
    BY <1>5, <1>14, <1>15
-----------------------------------------------------------------------------
\* The operations of one transaction.
LEMMA TransactionFollows ==
    ASSUME OwnedInv,
           \/ EnsureAiStagesFinalized \/ ApproveScript
           \/ \E s \in Scenes, u \in Uploads : AttachSceneAsset(s, u)
    PROVE  UNCHANGED <<req, jobs, orphaned, belated>> /\ Follows(video, video') /\ SameRender(video, video')
  <1>0. VideoShape(video)
    BY DEF OwnedInv
  <1>1. PICK v : v = Finalized
    OBVIOUS
  <1>2. Follows(video, v) /\ SameRender(video, v) /\ VideoShape(v) /\ DOMAIN v = VideoFields
    BY <1>0, <1>1, FinalizedFrom, ShapeFields DEF Follows
  <1>3. ASSUME EnsureAiStagesFinalized PROVE Follows(video, video') /\ SameRender(video, video')
    <2>1. video' = v
      BY <1>1, <1>3 DEF EnsureAiStagesFinalized, Mutation
    <2> QED
      BY <1>2, <2>1
  <1>4. ASSUME ApproveScript PROVE Follows(video, video') /\ SameRender(video, video')
    <2>1. PICK w : w = [v EXCEPT !.script.status = "APPROVED"]
      OBVIOUS
    <2>2. video' = w
      BY <1>1, <1>4, <2>1 DEF ApproveScript, Mutation
    <2>3. /\ DOMAIN w = VideoFields /\ \A f \in VideoFields : f # "script" => w[f] = v[f]
          /\ DOMAIN w.script = DOMAIN v.script /\ w.script.claim = v.script.claim
          /\ w.script.job = v.script.job /\ w.script.status = "APPROVED"
      BY <1>2, <2>1, Names, Fields DEF VideoFields, VideoShape
    <2>4. VideoShape(w)
      BY <1>2, <2>3, Names DEF VideoShape, VideoFields
    <2>5. StageFrom(v.script, w.script)
      BY <2>3 DEF StageFrom
    <2>6. \A k \in StageNames : StageFrom(v[k], w[k])
      BY <2>3, <2>5, Names DEF StageFrom, VideoFields
    <2>7. \A s \in DOMAIN w.scenes : SceneFrom(v, s, w.scenes[s])
      BY <2>3 DEF SceneFrom, VideoFields
    <2>8. Follows(v, w) /\ SameRender(v, w)
      BY <2>3, <2>4, <2>6, <2>7 DEF Follows, SameRender, Upstream, VideoFields
    <2> QED
      BY <1>2, <2>2, <2>8, FollowsTrans, SameRenderTrans
  <1>5. ASSUME NEW s \in Scenes, NEW u \in Uploads, AttachSceneAsset(s, u)
        PROVE  Follows(video, video') /\ SameRender(video, video')
    <2>1. PICK a, b : a = Media(video) /\ b = [NoScene EXCEPT !.group = u, !.asset = upload[u]]
      OBVIOUS
    <2>2. Follows(video, a) /\ SameRender(video, a) /\ VideoShape(a) /\ DOMAIN a = VideoFields
      BY <1>0, <2>1, MediaFrom, ShapeFields DEF Follows
    <2>3. PICK c : c = [a EXCEPT !.scenes[s] = b]
      OBVIOUS
    <2>4. s \in DOMAIN a.scenes /\ video' = Media(c)
      BY <1>5, <2>1, <2>3 DEF AttachSceneAsset, Mutation
    <2>5. DOMAIN b = DOMAIN NoScene /\ b.claim = 0 /\ b.job = None
      BY <2>1 DEF NoScene
    <2>6. /\ DOMAIN c = VideoFields /\ \A f \in VideoFields : f # "scenes" => c[f] = a[f]
          /\ DOMAIN c.scenes = DOMAIN a.scenes
          /\ \A x \in DOMAIN c.scenes : c.scenes[x] = IF x = s THEN b ELSE a.scenes[x]
      BY <2>2, <2>3, <2>4 DEF VideoFields
    <2>7. VideoShape(c)
      BY <2>2, <2>5, <2>6, Names DEF VideoShape, VideoFields
    <2>8. \A k \in StageNames : StageFrom(a[k], c[k])
      BY <2>6, Names DEF StageFrom, VideoFields
    <2>9. \A x \in DOMAIN c.scenes : SceneFrom(a, x, c.scenes[x])
      BY <2>5, <2>6 DEF SceneFrom
    <2>10. Follows(a, c) /\ SameRender(a, c)
      BY <2>6, <2>7, <2>8, <2>9 DEF Follows, SameRender, Upstream, VideoFields
    <2>11. Follows(c, Media(c)) /\ SameRender(c, Media(c))
      BY <2>7, MediaFrom
    <2> QED
      BY <2>2, <2>4, <2>10, <2>11, FollowsTrans, SameRenderTrans
  <1>6. UNCHANGED <<req, jobs, orphaned, belated>>
    BY DEF EnsureAiStagesFinalized, ApproveScript, AttachSceneAsset, Mutation
  <1> QED
    BY <1>3, <1>4, <1>5, <1>6

\* QA, scoring and review change the reports, and reconcile.
ReviewStep(r) ==
    \/ QaGather(r) \/ QaRecord(r) \/ ScoreCheck(r) \/ ScoreTexts(r) \/ Score(r) \/ ScoreRecord(r)
    \/ AssertReadyForReview(r) \/ SubmitForReview(r)

LEMMA ReviewFollows ==
    ASSUME OwnedInv, NEW r \in Requests, ReviewStep(r)
    PROVE  /\ UNCHANGED <<jobs, orphaned>> /\ Follows(video, video') /\ SameRender(video, video')
           /\ belated => belated'
           /\ ~Pending(r)
           /\ \/ UNCHANGED req
              \/ \E call : req' = [req EXCEPT ![r] = call] /\ call.pc \notin {"submit", "record"}
  <1>0. VideoShape(video) /\ DOMAIN video = VideoFields
    BY ShapeFields DEF OwnedInv
  <1>1. PICK v : v = Finalized
    OBVIOUS
  <1>2. Follows(video, v) /\ SameRender(video, v)
    BY <1>0, <1>1, FinalizedFrom
  <1>3. PICK u : u = Reconciled(video)
    OBVIOUS
  <1>4. Follows(video, u) /\ SameRender(video, u) /\ VideoShape(u) /\ DOMAIN u = VideoFields
    BY <1>0, <1>3, ReconciledFrom, ShapeFields DEF Follows
  <1>5. Follows(video, video) /\ SameRender(video, video)
    BY <1>0, FollowsSelf
  <1>6. CASE QaGather(r)
    <2>1. PICK w : w = QaOf(u)
      OBVIOUS
    <2>2. Follows(u, w) /\ SameRender(u, w)
      BY <1>4, <2>1, QaFrom
    <2>3. /\ video' = w /\ UNCHANGED <<jobs, orphaned, belated>> /\ req[r].pc = "idle"
      BY <1>3, <1>6, <2>1 DEF QaGather, Mutation, Begin, At
    <2>4. Follows(video, video') /\ SameRender(video, video')
      BY <1>4, <2>2, <2>3, FollowsTrans, SameRenderTrans
    <2>5. PICK n, call : call = [pc |-> "qa", render |-> n] /\ req' = [req EXCEPT ![r] = call]
      BY <1>6 DEF QaGather, Begin
    <2>6. call.pc = "qa"
      BY <2>5
    <2> QED
      BY <2>3, <2>4, <2>5, <2>6 DEF Pending
  <1>7. CASE QaRecord(r)
    <2>1. PICK x, w : w = [u EXCEPT !.qa = x] /\ video' = w
      BY <1>3, <1>7 DEF QaRecord, Mutation
    <2>2. DOMAIN w = DOMAIN u /\ \A f \in DOMAIN u : f \notin {"qa", "score"} => w[f] = u[f]
      BY <1>4, <2>1 DEF VideoFields
    <2>3. Follows(u, w) /\ SameRender(u, w)
      BY <1>4, <2>2, ReportFrom
    <2>4. Follows(video, video') /\ SameRender(video, video')
      BY <1>4, <2>1, <2>3, FollowsTrans, SameRenderTrans
    <2>5. UNCHANGED <<jobs, orphaned, belated>> /\ req[r].pc = "qa" /\ req' = [req EXCEPT ![r] = Idle]
      BY <1>7 DEF QaRecord, Mutation, Done, At
    <2>6. Idle.pc = "idle"
      BY DEF Idle
    <2> QED
      BY <2>4, <2>5, <2>6 DEF Pending
  <1>8. CASE ScoreCheck(r)
    <2>1. /\ video' = v /\ UNCHANGED <<jobs, orphaned, belated>> /\ req[r].pc = "idle"
      BY <1>1, <1>8 DEF ScoreCheck, Mutation, Begin, At
    <2>2. PICK call : call = [pc |-> "score"] /\ req' = [req EXCEPT ![r] = call]
      BY <1>8 DEF ScoreCheck, Begin
    <2>3. call.pc = "score"
      BY <2>2
    <2> QED
      BY <1>2, <2>1, <2>2, <2>3 DEF Pending
  <1>9. CASE ScoreTexts(r)
    <2>1. video' = video /\ UNCHANGED <<jobs, orphaned, belated>> /\ req[r].pc = "score"
      BY <1>9 DEF ScoreTexts, At
    <2>2. PICK x, call : call = [pc |-> "scoreRow", texts |-> x] /\ req' = [req EXCEPT ![r] = call]
      BY <1>9 DEF ScoreTexts
    <2>3. call.pc = "scoreRow"
      BY <2>2
    <2> QED
      BY <1>5, <2>1, <2>2, <2>3 DEF Pending
  <1>10. CASE Score(r)
    <2>1. video' = video /\ UNCHANGED <<jobs, orphaned, belated>> /\ req[r].pc = "scoreRow"
      BY <1>10 DEF Score, At
    <2>2. PICK x, call : call = [pc |-> "scored", score |-> x] /\ req' = [req EXCEPT ![r] = call]
      BY <1>10 DEF Score
    <2>3. call.pc = "scored"
      BY <2>2
    <2> QED
      BY <1>5, <2>1, <2>2, <2>3 DEF Pending
  <1>11. CASE ScoreRecord(r)
    <2>1. PICK x, w : w = [video EXCEPT !.score = x] /\ video' = w
      BY <1>11 DEF ScoreRecord
    <2>2. DOMAIN w = DOMAIN video /\ \A f \in DOMAIN video : f \notin {"qa", "score"} => w[f] = video[f]
      BY <1>0, <2>1 DEF VideoFields
    <2>3. Follows(video, w) /\ SameRender(video, w)
      BY <1>0, <2>2, ReportFrom
    <2>4. /\ UNCHANGED <<jobs, orphaned>> /\ req[r].pc = "scored" /\ req' = [req EXCEPT ![r] = Idle]
          /\ belated => belated'
      BY <1>11 DEF ScoreRecord, Done, At
    <2>5. Idle.pc = "idle"
      BY DEF Idle
    <2> QED
      BY <2>1, <2>3, <2>4, <2>5 DEF Pending
  <1>12. CASE AssertReadyForReview(r)
    <2>1. /\ video' = v /\ UNCHANGED <<jobs, orphaned, belated>> /\ req[r].pc = "idle"
      BY <1>1, <1>12 DEF AssertReadyForReview, Mutation, Begin, At
    <2>2. CASE UNCHANGED req
      BY <1>2, <2>1, <2>2 DEF Pending
    <2>3. CASE Begin(r, [pc |-> "review"])
      <3>1. PICK call : call = [pc |-> "review"] /\ req' = [req EXCEPT ![r] = call]
        BY <2>3 DEF Begin
      <3>2. call.pc = "review"
        BY <3>1
      <3> QED
        BY <1>2, <2>1, <3>1, <3>2 DEF Pending
    <2> QED
      BY <1>12, <2>2, <2>3 DEF AssertReadyForReview
  <1>13. CASE SubmitForReview(r)
    <2>1. /\ video' = video /\ UNCHANGED <<jobs, orphaned>> /\ req[r].pc = "review"
          /\ req' = [req EXCEPT ![r] = Idle] /\ (belated => belated')
      BY <1>13 DEF SubmitForReview, Done, At
    <2>2. Idle.pc = "idle"
      BY DEF Idle
    <2> QED
      BY <1>5, <2>1, <2>2 DEF Pending
  <1> QED
    BY <1>6, <1>7, <1>8, <1>9, <1>10, <1>11, <1>12, <1>13 DEF ReviewStep

\* Jobs end, files go, and a review is refused.
OutsideStep ==
    \/ Reject
    \/ \E n \in DOMAIN jobs : JobCompletes(n) \/ JobFails(n) \/ ArchiveGenerated(n)
    \/ \E u \in Uploads : ChangeUpload(u)

LEMMA OutsideKeeps ==
    ASSUME OwnedInv, OutsideStep
    PROVE  /\ UNCHANGED <<video, req, orphaned, belated>>
           /\ JobsShape(jobs') /\ DOMAIN jobs' = DOMAIN jobs /\ Len(jobs') = Len(jobs)
           /\ \A n \in DOMAIN jobs :
                  /\ jobs'[n].kind = jobs[n].kind /\ jobs'[n].from = jobs[n].from
                  /\ jobs'[n].status = "QUEUED" => jobs[n].status = "QUEUED"
                  /\ jobs'[n].status = "NONE" <=> jobs[n].status = "NONE"
  <1>0. JobsShape(jobs)
    BY DEF OwnedInv
  <1>1. UNCHANGED <<video, req, orphaned, belated>>
    BY DEF OutsideStep, Reject, JobCompletes, JobFails, ArchiveGenerated, ChangeUpload, External
  <1>2. CASE jobs' = jobs
    BY <1>0, <1>1, <1>2
  <1> DEFINE Ends(i, x, y, j) ==
             /\ i \in DOMAIN jobs /\ jobs' = j /\ x \in {"COMPLETED", "FAILED"}
             /\ jobs[i].status \in {"QUEUED", "FAILED"}
             /\ \/ j = [jobs EXCEPT ![i].status = x]
                \/ j = [jobs EXCEPT ![i].status = x, ![i].covers = y]
  <1>3. CASE \E i, x, y, j : Ends(i, x, y, j)
    <2>1. PICK i, x, y, j : Ends(i, x, y, j)
      BY <1>3
    <2>2. JobsShape(j) /\ DOMAIN j = DOMAIN jobs /\ Len(j) = Len(jobs)
      <3>1. i \in DOMAIN jobs
        BY <2>1
      <3>2. DOMAIN j[i] = DOMAIN jobs[i] /\ j = [jobs EXCEPT ![i] = j[i]]
        BY <2>1
      <3> QED
        BY <1>0, <3>1, <3>2, JobChanges
    <2>3. \A n \in DOMAIN jobs : DOMAIN jobs[n] = {"kind", "from", "status", "covers"}
      BY <1>0 DEF JobsShape
    <2>4. \A n \in DOMAIN jobs : n # i => j[n] = jobs[n]
      BY <2>1
    <2>5. j[i].kind = jobs[i].kind /\ j[i].from = jobs[i].from /\ j[i].status = x
      BY <2>1, <2>3
    <2>6. \A n \in DOMAIN jobs : /\ j[n].status = "NONE" <=> jobs[n].status = "NONE"
                                 /\ j[n].status = "QUEUED" => jobs[n].status = "QUEUED"
      BY <2>1, <2>4, <2>5
    <2>7. \A n \in DOMAIN jobs : j[n].kind = jobs[n].kind /\ j[n].from = jobs[n].from
      BY <2>4, <2>5
    <2> QED
      BY <1>1, <2>1, <2>2, <2>6, <2>7
  <1>4. ASSUME NEW n \in DOMAIN jobs, JobCompletes(n)
        PROVE  \E i, x, y, j : Ends(i, x, y, j)
    BY <1>4 DEF JobCompletes
  <1>5. ASSUME NEW n \in DOMAIN jobs, JobFails(n)
        PROVE  \E i, x, y, j : Ends(i, x, y, j)
    BY <1>5 DEF JobFails
  <1>6. CASE Reject \/ (\E n \in DOMAIN jobs : ArchiveGenerated(n)) \/ \E u \in Uploads : ChangeUpload(u)
    BY <1>2, <1>6 DEF Reject, ArchiveGenerated, ChangeUpload
  <1> QED
    BY <1>3, <1>4, <1>5, <1>6 DEF OutsideStep

LEMMA OwnedStep ==
    ASSUME OwnedInv, [Next]_vars
    PROVE  OwnedInv'
  <1>0. VideoShape(video) /\ JobsShape(jobs) /\ RequestsKnown
    BY DEF OwnedInv
  <1>1. ASSUME NEW r \in Requests, NEW k \in TextStages, ClaimStage(r, k) PROVE OwnedInv'
    BY <1>1, ClaimStageKeeps
  <1>2. ASSUME NEW r \in Requests,
               \/ \E s \in Scenes : GenerateSceneImage(r, s)
               \/ \E p \in Profiles : GenerateVoice(r, p)
               \/ GenerateSubtitles(r)
        PROVE  OwnedInv'
    BY <1>2, MediaClaimKeeps
  <1>3. ASSUME NEW r \in Requests, SubmitRender(r) PROVE OwnedInv'
    BY <1>3, SubmitRenderKeeps
  <1>4. ASSUME NEW r \in Requests, SubmitJob(r) PROVE OwnedInv'
    BY <1>4, SubmitJobKeeps
  <1>5. ASSUME NEW r \in Requests, RecordJob(r) PROVE OwnedInv'
    BY <1>5, RecordJobKeeps
  <1>6. ASSUME NEW r \in Requests, ReviewStep(r) PROVE OwnedInv'
    <2>1. /\ UNCHANGED <<jobs, orphaned>> /\ Follows(video, video') /\ ~Pending(r)
          /\ \/ UNCHANGED req
             \/ \E call : req' = [req EXCEPT ![r] = call] /\ call.pc \notin {"submit", "record"}
      BY <1>6, ReviewFollows
    <2>2. CASE UNCHANGED req
      BY <1>0, <2>1, <2>2, QuietStep
    <2>3. CASE \E call : req' = [req EXCEPT ![r] = call] /\ call.pc \notin {"submit", "record"}
      BY <2>1, <2>3, OtherRequests
    <2> QED
      BY <2>1, <2>2, <2>3
  <1>7. ASSUME NEW r \in Requests, Abort(r) PROVE OwnedInv'
    BY <1>7, AbortKeeps
  <1>8. ASSUME \/ EnsureAiStagesFinalized \/ ApproveScript
               \/ \E s \in Scenes, u \in Uploads : AttachSceneAsset(s, u)
        PROVE  OwnedInv'
    <2>1. UNCHANGED <<req, jobs, orphaned>> /\ Follows(video, video')
      BY <1>8, TransactionFollows
    <2> QED
      BY <1>0, <2>1, QuietStep
  <1>9. ASSUME OutsideStep PROVE OwnedInv'
    <2>1. /\ UNCHANGED <<video, req, orphaned>> /\ JobsShape(jobs')
          /\ DOMAIN jobs' = DOMAIN jobs /\ Len(jobs') = Len(jobs)
      BY <1>9, OutsideKeeps
    <2>2. Follows(video, video')
      BY <1>0, <2>1, FollowsSelf
    <2> QED
      BY <2>1, <2>2, QuietStep
  <1>10. CASE UNCHANGED vars
    <2>1. UNCHANGED <<video, jobs, req, orphaned>>
      BY <1>10 DEF vars
    <2>2. Follows(video, video')
      BY <1>0, <2>1, FollowsSelf
    <2> QED
      BY <1>0, <2>1, <2>2, QuietStep
  <1> QED
    BY <1>1, <1>2, <1>3, <1>4, <1>5, <1>6, <1>7, <1>8, <1>9, <1>10
    DEF Next, Request, ReviewStep, OutsideStep
LEMMA ProducedShape ==
    ASSUME NEW s, NEW u, NEW p
    PROVE  /\ JobsShape(ProducedJobs(s, u, p)) /\ Len(ProducedJobs(s, u, p)) = 7
           /\ \A n \in 1..7 : ProducedJobs(s, u, p)[n].status = "COMPLETED"
           /\ \A n \in 1..7 : ProducedJobs(s, u, p)[n].kind = "render" => n = 7
           /\ ProducedJobs(s, u, p)[7].from[3] = Upstream(Produced(s, u))
  <1> DEFINE Whole(x) == DOMAIN x = {"kind", "from", "status", "covers"} /\ x.status = "COMPLETED"
  <1>1. \A sort, from, covers : /\ Whole(Job(sort, from, "COMPLETED", covers))
                                /\ Job(sort, from, "COMPLETED", covers).kind = sort
                                /\ Job(sort, from, "COMPLETED", covers).from = from
    BY DEF Job
  <1>2. PICK a, b, c, d, e, f, g :
            /\ Whole(a) /\ Whole(b) /\ Whole(c) /\ Whole(d) /\ Whole(e) /\ Whole(f) /\ Whole(g)
            /\ a.kind # "render" /\ b.kind # "render" /\ c.kind # "render" /\ d.kind # "render"
            /\ e.kind # "render" /\ f.kind # "render"
            /\ g.from = <<Frozen(Produced(s, u)), 3, Upstream(Produced(s, u))>>
            /\ ProducedJobs(s, u, p) = <<a, b, c, d, e, f, g>>
    <2> HIDE DEF Whole
    <2>1. PICK a, b, c, d, e, f, g :
            /\ a = Job("brief", <<>>, "COMPLETED", {}) /\ b = Job("script", <<1>>, "COMPLETED", {})
            /\ c = Job("plan", <<2>>, "COMPLETED", {s}) /\ d = Job("seo", <<2>>, "COMPLETED", {})
            /\ e = Job("voice", <<p, 2>>, "COMPLETED", {}) /\ f = Job("subs", <<5>>, "COMPLETED", {})
            /\ g = Job("render", <<Frozen(Produced(s, u)), 3, Upstream(Produced(s, u))>>, "COMPLETED", {})
      OBVIOUS
    <2>2. /\ Whole(a) /\ Whole(b) /\ Whole(c) /\ Whole(d) /\ Whole(e) /\ Whole(f) /\ Whole(g)
          /\ a.kind = "brief" /\ b.kind = "script" /\ c.kind = "plan" /\ d.kind = "seo"
          /\ e.kind = "voice" /\ f.kind = "subs"
          /\ g.from = <<Frozen(Produced(s, u)), 3, Upstream(Produced(s, u))>>
      BY <1>1, <2>1
    <2>3. ProducedJobs(s, u, p) = <<a, b, c, d, e, f, g>>
      BY <2>1 DEF ProducedJobs
    <2> QED
      BY <2>2, <2>3
  <1>3. PICK j : j = <<a, b, c, d, e, f, g>>
    OBVIOUS
  <1>4. /\ Len(j) = 7 /\ DOMAIN j = 1..7 /\ j[1] = a /\ j[2] = b /\ j[3] = c /\ j[4] = d /\ j[5] = e
        /\ j[6] = f /\ j[7] = g
    BY <1>3
  <1>5. \A n \in 1..7 : Whole(j[n]) /\ (j[n].kind = "render" => n = 7)
    <2> HIDE DEF Whole
    <2>1. \A n \in 1..7 : n = 1 \/ n = 2 \/ n = 3 \/ n = 4 \/ n = 5 \/ n = 6 \/ n = 7
      OBVIOUS
    <2> QED
      BY <1>2, <1>4, <2>1
  <1>6. j \in Seq({j[n] : n \in DOMAIN j})
    <2> DEFINE U == {j[n] : n \in DOMAIN j}
    <2>1. a \in U /\ b \in U /\ c \in U /\ d \in U /\ e \in U /\ f \in U /\ g \in U
      BY <1>4
    <2> HIDE DEF U
    <2>2. j \in Seq(U)
      BY <1>3, <2>1
    <2> QED
      BY <2>2 DEF U
  <1>7. JobsShape(j)
    BY <1>4, <1>5, <1>6 DEF JobsShape
  <1>8. j[7].from[3] = Upstream(Produced(s, u))
    BY <1>2, <1>4
  <1> QED
    BY <1>2, <1>3, <1>4, <1>5, <1>7, <1>8

LEMMA CreatedFields ==
    /\ VideoShape(Created)
    /\ \A k \in StageNames : Created[k].claim = 0 /\ Created[k].job = None
                             /\ Created[k].status # "GENERATING"
    /\ DOMAIN Created.scenes = {}
  BY Names DEF VideoShape, Created, NoText, NoVoice, NoSubs, NoRender, NoScenes

LEMMA ProducedFields ==
    ASSUME NEW s, NEW u
    PROVE  /\ VideoShape(Produced(s, u))
           /\ \A k \in StageNames : /\ Produced(s, u)[k].claim \in 0..7
                                    /\ Produced(s, u)[k].status # "GENERATING"
                                    /\ Produced(s, u)[k].job # Placeholder
           /\ \A x \in DOMAIN Produced(s, u).scenes :
                  Produced(s, u).scenes[x].claim = 0 /\ Produced(s, u).scenes[x].job = None
           /\ Upstream(Produced(s, u)) = <<1, 2, 3>>
  <1>1. PICK v : v = Produced(s, u)
    OBVIOUS
  <1>2. PICK b, c, p, q, a, t, d, z :
            /\ b = [status |-> "READY", job |-> 1, artifact |-> 1, claim |-> 1]
            /\ c = [status |-> "APPROVED", job |-> 2, artifact |-> 2, claim |-> 2]
            /\ p = [status |-> "READY", job |-> 3, artifact |-> 3, claim |-> 3]
            /\ q = [status |-> "READY", job |-> 4, artifact |-> 4, claim |-> 4]
            /\ a = [status |-> "READY", job |-> None, audio |-> 5, hash |-> 2, claim |-> 5]
            /\ t = [status |-> "READY", job |-> None, vtt |-> 6, source |-> 5, claim |-> 6]
            /\ d = [status |-> "READY", job |-> 7, claim |-> 7]
            /\ z = [x \in {s} |-> [NoScene EXCEPT !.group = u, !.asset = 1]]
    OBVIOUS
  <1>3. [Text(2) EXCEPT !.status = "APPROVED"] = c
    BY <1>2 DEF Text
  <1>4. /\ v.brief = b /\ v.script = c /\ v.plan = p /\ v.seo = q /\ v.voice = a /\ v.subs = t
        /\ v.render = d /\ v.scenes = z
        /\ DOMAIN v = VideoFields
    BY <1>1, <1>2, <1>3 DEF Produced, Text, VideoFields
  <1>5. /\ DOMAIN b = DOMAIN NoText /\ DOMAIN c = DOMAIN NoText /\ DOMAIN p = DOMAIN NoText
        /\ DOMAIN q = DOMAIN NoText /\ DOMAIN a = DOMAIN NoVoice /\ DOMAIN t = DOMAIN NoSubs
        /\ DOMAIN d = DOMAIN NoRender
    BY <1>2, Fields
  <1>6. \A x \in DOMAIN z : DOMAIN z[x] = DOMAIN NoScene /\ z[x].claim = 0 /\ z[x].job = None
    BY <1>2 DEF NoScene
  <1>7. VideoShape(v)
    BY <1>4, <1>5, <1>6, Names DEF VideoShape, VideoFields
  <1>8. \A k \in StageNames : v[k].claim \in 0..7 /\ v[k].status # "GENERATING" /\ v[k].job # Placeholder
    BY <1>2, <1>4, Names, VideoAssumption DEF Placeholder
  <1>9. Upstream(v) = <<1, 2, 3>>
    BY <1>2, <1>4 DEF Upstream
  <1> QED
    BY <1>1, <1>4, <1>6, <1>7, <1>8, <1>9

LEMMA OwnedInit == VideoInit => OwnedInv
  <1> SUFFICES ASSUME VideoInit PROVE OwnedInv
    OBVIOUS
  <1>1. RequestsKnown /\ \A r \in Requests : ~Pending(r)
    BY DEF VideoInit, RequestsKnown, Pending, Idle
  <1>2. /\ VideoShape(video) /\ JobsShape(jobs) /\ Len(jobs) \in Nat
        /\ \A k \in StageNames : /\ video[k].claim \in 0..Len(jobs)
                                 /\ video[k].status # "GENERATING" /\ video[k].job # Placeholder
        /\ \A s \in DOMAIN video.scenes : video.scenes[s].claim = 0 /\ video.scenes[s].job = None
    <2>1. CASE video = Created /\ jobs = <<>>
      <3>1. JobsShape(jobs) /\ Len(jobs) = 0
        BY <2>1 DEF JobsShape
      <3> QED
        BY <2>1, <3>1, CreatedFields, VideoAssumption DEF Placeholder
    <2>2. CASE \E s \in Scenes, u \in Uploads :
                  video = Produced(s, u) /\ jobs = ProducedJobs(s, u, CHOOSE p \in Profiles : TRUE)
      <3>1. PICK s, u, p : video = Produced(s, u) /\ jobs = ProducedJobs(s, u, p)
        BY <2>2
      <3>2. JobsShape(jobs) /\ Len(jobs) = 7
        BY <3>1, ProducedShape
      <3>3. /\ VideoShape(video)
            /\ \A k \in StageNames : /\ video[k].claim \in 0..7 /\ video[k].status # "GENERATING"
                                     /\ video[k].job # Placeholder
            /\ \A x \in DOMAIN video.scenes : video.scenes[x].claim = 0 /\ video.scenes[x].job = None
        BY <3>1, ProducedFields
      <3> QED
        BY <3>2, <3>3
    <2> QED
      BY <2>1, <2>2 DEF VideoInit
  <1>3. ClaimsKnown
    BY <1>1, <1>2 DEF ClaimsKnown
  <1>4. StagesOwned
    BY <1>2, Names, VideoAssumption DEF StagesOwned, Placeholder
  <1> QED
    BY <1>1, <1>2, <1>3, <1>4 DEF OwnedInv

\* No stage of a video waits for a job that nobody is going to record: whenever
\* a text stage is being generated without a job, or a media stage or the render
\* holds the placeholder, the request that claimed it is still about to record
\* the job or the failure, or it died (the claims of claimStage, and the
\* placeholders of the media and the render stages).
THEOREM VideoSpecStagesOwned == Spec => []StagesOwned
  <1>1. VideoInit => OwnedInv
    BY OwnedInit
  <1>2. OwnedInv /\ [Next]_vars => OwnedInv'
    BY OwnedStep
  <1>3. OwnedInv => StagesOwned
    BY DEF OwnedInv
  <1> QED
    BY <1>1, <1>2, <1>3, PTL DEF Spec
-----------------------------------------------------------------------------
\* The renders through a step that takes no number: none begins to live, and
\* what the video says of its render stays.
LEMMA RenderFrame ==
    ASSUME RenderInv, OwnedInv', DOMAIN jobs' = DOMAIN jobs,
           \A n \in DOMAIN jobs :
               /\ jobs'[n].kind = jobs[n].kind /\ jobs'[n].from = jobs[n].from
               /\ jobs'[n].status = "QUEUED" => jobs[n].status = "QUEUED"
               /\ jobs'[n].status = "NONE" <=> jobs[n].status = "NONE",
           \A q \in Requests : Pending(q)' => Pending(q) /\ req'[q] = req[q],
           SameRender(video, video'), belated => belated'
    PROVE  RenderInv'
  <1>0. RequestsKnown /\ RendersKnown /\ (~belated => RenderAwaited /\ LiveOnce)
    BY DEF RenderInv, OwnedInv
  <1>1. \A n : IsRender(n)' <=> IsRender(n)
    BY DEF IsRender
  <1>2. RendersKnown'
    <2>1. ASSUME NEW r \in Requests, Pending(r)'
          PROVE  /\ req'[r].what = "render" <=> IsRender(req[r].serial)'
                 /\ req'[r].pc = "submit" => jobs'[req'[r].serial].status = "NONE"
                 /\ req'[r].pc = "record" /\ req'[r].what = "render" =>
                    req'[r].job = IF jobs'[req'[r].serial].status = "NONE" THEN None ELSE req'[r].serial
      <3>1. Pending(r) /\ req'[r] = req[r] /\ req[r].serial \in DOMAIN jobs
        BY <1>0, <2>1 DEF RequestsKnown
      <3> QED
        BY <1>0, <1>1, <3>1 DEF RendersKnown, IsRender
    <2>2. \A n \in DOMAIN jobs' : IsRender(n)' =>
             \E a, b, c \in 0..(n - 1) : jobs'[n].from[3] = <<a, b, c>>
      BY <1>0, <1>1 DEF RendersKnown
    <2> QED
      BY <2>1, <2>2 DEF RendersKnown
  <1>3. ASSUME NEW n, Live(n)' PROVE Live(n) /\ n \in DOMAIN jobs
    <2>1. IsRender(n) /\ n \in DOMAIN jobs
      BY <1>1, <1>3 DEF Live, IsRender
    <2>2. CASE jobs'[n].status = "QUEUED"
      BY <2>1, <2>2 DEF Live
    <2>3. CASE \E r \in Requests : At(r, "submit")' /\ req'[r].serial = n
      BY <2>1, <2>3 DEF Live, At, Pending
    <2> QED
      BY <1>3, <2>2, <2>3 DEF Live
  <1>4. ASSUME NEW n \in DOMAIN jobs, Live(n)', jobs[n].status = "QUEUED" PROVE jobs'[n].status = "QUEUED"
    <2>1. ~ \E r \in Requests : At(r, "submit")' /\ req'[r].serial = n
      BY <1>0, <1>4 DEF RendersKnown, At, Pending
    <2> QED
      BY <1>4, <2>1 DEF Live
  <1>5. ASSUME ~belated' PROVE RenderAwaited' /\ LiveOnce'
    <2>1. RenderAwaited /\ LiveOnce
      BY <1>0, <1>5
    <2>2. LiveOnce'
      BY <1>3, <2>1 DEF LiveOnce
    <2>3. ASSUME NEW n \in DOMAIN jobs', Live(n)', jobs'[n].from[3] = Upstream(video')
          PROVE  /\ video'.render.claim = n
                 /\ \/ video'.render.job = Placeholder
                    \/ video'.render.job = n /\ jobs'[n].status = "QUEUED"
      <3>1. n \in DOMAIN jobs /\ Live(n) /\ jobs[n].from[3] = Upstream(video)
        BY <1>3, <2>3 DEF SameRender
      <3>2. /\ video.render.claim = n
            /\ video.render.job = Placeholder \/ (video.render.job = n /\ jobs[n].status = "QUEUED")
        BY <2>1, <3>1 DEF RenderAwaited
      <3> QED
        BY <1>4, <2>3, <3>1, <3>2 DEF SameRender
    <2> QED
      BY <2>2, <2>3 DEF RenderAwaited
  <1> QED
    BY <1>2, <1>5 DEF RenderInv

\* Only the job of the request becomes QUEUED, and it was about to be sent.
LEMMA SubmitJobRenders ==
    ASSUME RenderInv, OwnedInv', NEW r \in Requests, SubmitJob(r)
    PROVE  RenderInv'
  <1>0. JobsShape(jobs) /\ RequestsKnown /\ RendersKnown /\ (~belated => RenderAwaited /\ LiveOnce)
    BY DEF RenderInv, OwnedInv
  <1>1. PICK i : i = req[r].serial
    OBVIOUS
  <1>2. /\ i \in DOMAIN jobs /\ Pending(r) /\ req[r].pc = "submit" /\ jobs[i].status = "NONE"
        /\ UNCHANGED <<video, belated>>
    BY <1>0, <1>1 DEF SubmitJob, At, Pending, RequestsKnown, RendersKnown
  <1>3. PICK n : Submitted(r, n)
    BY <1>1 DEF SubmitJob
  <1>4. PICK call : call = [pc |-> "record", what |-> req[r].what, serial |-> i, job |-> n]
    OBVIOUS
  <1>5. /\ DOMAIN req' = Requests /\ req'[r] = call /\ \A q \in Requests : q # r => req'[q] = req[q]
        /\ call.pc = "record" /\ call.what = req[r].what /\ call.serial = i /\ call.job = n
    BY <1>0, <1>1, <1>3, <1>4 DEF Submitted, RequestsKnown
  <1>6. /\ DOMAIN jobs' = DOMAIN jobs
        /\ \A m \in DOMAIN jobs : /\ jobs'[m].kind = jobs[m].kind /\ jobs'[m].from = jobs[m].from
                                  /\ m # i => jobs'[m] = jobs[m]
    <2>1. \A m \in DOMAIN jobs : DOMAIN jobs[m] = {"kind", "from", "status", "covers"}
      BY <1>0 DEF JobsShape
    <2>2. CASE jobs' = jobs
      BY <2>2
    <2>3. CASE \E x : jobs' = [jobs EXCEPT ![i].status = x]
      BY <1>2, <2>1, <2>3
    <2> QED
      BY <1>1, <2>2, <2>3 DEF SubmitJob
  <1>7. IsRender(i) => n = IF jobs'[i].status = "NONE" THEN None ELSE i
    <2> SUFFICES ASSUME IsRender(i) PROVE n = IF jobs'[i].status = "NONE" THEN None ELSE i
      OBVIOUS
    <2>1. Reusable(i) = {} /\ ~IsMedia(i)
      BY DEF Reusable, IsMedia, IsRender
    <2>2. \A m : Submitted(r, m) => req'[r].job = m
      <3> SUFFICES ASSUME NEW m, Submitted(r, m) PROVE req'[r].job = m
        OBVIOUS
      <3>1. PICK x : x = [pc |-> "record", what |-> req[r].what, serial |-> req[r].serial, job |-> m]
        OBVIOUS
      <3>2. req'[r] = x /\ x.job = m
        BY <1>0, <3>1 DEF Submitted, RequestsKnown
      <3> QED
        BY <3>2
    <2>3. \/ jobs' = [jobs EXCEPT ![i].status = "QUEUED"] /\ req'[r].job = i
          \/ jobs' = [jobs EXCEPT ![i].status = "NONE"] /\ req'[r].job = None
          \/ jobs' = jobs /\ req'[r].job = None
      BY <1>1, <1>2, <2>1, <2>2 DEF SubmitJob
    <2>4. DOMAIN jobs[i] = {"kind", "from", "status", "covers"}
      BY <1>0, <1>2 DEF JobsShape
    <2> QED
      BY <1>2, <1>5, <2>3, <2>4
  <1>8. \A m : IsRender(m)' <=> IsRender(m)
    BY <1>6 DEF IsRender
  <1>9. \A q \in Requests : q # r /\ Pending(q) => req[q].serial # i
    BY <1>0, <1>1, <1>2 DEF RequestsKnown
  <1>10. RendersKnown'
    <2>1. ASSUME NEW q \in Requests, Pending(q)'
          PROVE  /\ req'[q].what = "render" <=> IsRender(req[q].serial)'
                 /\ req'[q].pc = "submit" => jobs'[req'[q].serial].status = "NONE"
                 /\ req'[q].pc = "record" /\ req'[q].what = "render" =>
                    req'[q].job = IF jobs'[req'[q].serial].status = "NONE" THEN None ELSE req'[q].serial
      <3>1. CASE q = r
        BY <1>0, <1>1, <1>2, <1>5, <1>6, <1>7, <3>1 DEF RendersKnown, IsRender
      <3>2. CASE q # r
        <4>1. Pending(q) /\ req'[q] = req[q] /\ req[q].serial \in DOMAIN jobs /\ req[q].serial # i
          BY <1>0, <1>5, <1>9, <2>1, <3>2 DEF Pending, RequestsKnown
        <4> QED
          BY <1>0, <1>6, <4>1 DEF RendersKnown, IsRender
      <3> QED
        BY <3>1, <3>2
    <2>2. \A m \in DOMAIN jobs' : IsRender(m)' =>
             \E a, b, c \in 0..(m - 1) : jobs'[m].from[3] = <<a, b, c>>
      BY <1>0, <1>6, <1>8 DEF RendersKnown
    <2> QED
      BY <2>1, <2>2 DEF RendersKnown
  <1>11. ASSUME NEW m, Live(m)' PROVE Live(m) /\ m \in DOMAIN jobs
    <2>1. IsRender(m) /\ m \in DOMAIN jobs
      BY <1>8, <1>11 DEF Live, IsRender
    <2>2. CASE m = i
      BY <1>1, <1>2, <2>1, <2>2 DEF Live, At
    <2>3. CASE m # i
      BY <1>5, <1>6, <1>11, <2>1, <2>3 DEF Live, At
    <2> QED
      BY <2>1, <2>2, <2>3
  <1>12. ASSUME ~belated' PROVE RenderAwaited' /\ LiveOnce'
    <2>1. RenderAwaited /\ LiveOnce
      BY <1>0, <1>2, <1>12
    <2>2. LiveOnce'
      BY <1>6, <1>11, <2>1 DEF LiveOnce
    <2>3. ASSUME NEW m \in DOMAIN jobs', Live(m)', jobs'[m].from[3] = Upstream(video')
          PROVE  /\ video'.render.claim = m
                 /\ \/ video'.render.job = Placeholder
                    \/ video'.render.job = m /\ jobs'[m].status = "QUEUED"
      <3>1. m \in DOMAIN jobs /\ Live(m) /\ jobs[m].from[3] = Upstream(video) /\ video' = video
        BY <1>2, <1>6, <1>11, <2>3
      <3>2. /\ video.render.claim = m
            /\ video.render.job = Placeholder \/ (video.render.job = m /\ jobs[m].status = "QUEUED")
        BY <2>1, <3>1 DEF RenderAwaited
      <3> QED
        BY <1>2, <1>6, <3>1, <3>2
    <2> QED
      BY <2>2, <2>3 DEF RenderAwaited
  <1> QED
    BY <1>10, <1>12 DEF RenderInv
\* A render is recorded in the stage that awaits it, or too late.
LEMMA RecordJobRenders ==
    ASSUME RenderInv, NEW r \in Requests, RecordJob(r)
    PROVE  RenderInv'
  <1>0. /\ OwnedInv /\ VideoShape(video) /\ JobsShape(jobs) /\ RequestsKnown /\ RendersKnown
        /\ ~belated => RenderAwaited /\ LiveOnce
    BY DEF RenderInv, OwnedInv
  <1>1. PICK what, n, i : what = req[r].what /\ n = req[r].job /\ i = req[r].serial
    OBVIOUS
  <1>2. /\ Pending(r) /\ req[r].pc = "record" /\ what \in StageNames \cup Scenes /\ i \in DOMAIN jobs
        /\ UNCHANGED jobs /\ (belated => belated')
        /\ ~belated' => ~Overtaken(r)
    BY <1>0, <1>1 DEF RecordJob, At, Pending, RequestsKnown
  <1>3. OwnedInv' /\ Upstream(video') = Upstream(video)
    BY <1>0, RecordJobKeeps
  <1>4. DOMAIN video = VideoFields /\ DOMAIN jobs = 1..Len(jobs) /\ DOMAIN video.render = DOMAIN NoRender
    <2>1. DOMAIN video = VideoFields /\ DOMAIN video.render = DOMAIN NoRender
      BY <1>0, ShapeFields DEF VideoShape
    <2>2. DOMAIN jobs = 1..Len(jobs)
      BY <1>0 DEF JobsShape
    <2> QED
      BY <2>1, <2>2
  <1>5. PICK w : w = video'
    OBVIOUS
  <1>6. what # "render" => w.render = video.render
    <2>1. CASE what \in Scenes
      BY <1>1, <1>4, <1>5, <2>1 DEF RecordJob, SceneRecorded, VideoFields
    <2>2. CASE what \notin Scenes
      BY <1>1, <1>2, <1>4, <1>5, <2>2, Names DEF RecordJob, VideoFields
    <2> QED
      BY <2>1, <2>2
  <1>7. what = "render" => w.render.claim = video.render.claim /\ w.render.job = n
    <2> SUFFICES ASSUME what = "render" PROVE w.render.claim = video.render.claim /\ w.render.job = n
      OBVIOUS
    <2>1. what \notin Scenes /\ what \notin TextStages
      BY Names, VideoAssumption
    <2>2. PICK old, b : old = video.render /\ b = Recorded(old, what, n)
      OBVIOUS
    <2>3. w = [video EXCEPT !.render = b]
      BY <1>1, <1>5, <2>1, <2>2 DEF RecordJob
    <2>4. b.claim = old.claim /\ b.job = n
      BY <1>4, <2>1, <2>2, Fields DEF Recorded, WithoutJob
    <2> QED
      BY <1>4, <2>2, <2>3, <2>4 DEF VideoFields
  <1>8. /\ DOMAIN req' = Requests /\ req'[r] = Idle /\ \A q \in Requests : q # r => req'[q] = req[q]
        /\ Idle.pc = "idle"
    BY <1>0 DEF RecordJob, Done, RequestsKnown, Idle
  <1>9. \A q \in Requests : Pending(q)' => Pending(q) /\ req'[q] = req[q]
    BY <1>8 DEF Pending
  <1>10. RendersKnown'
    BY <1>0, <1>2, <1>9 DEF RendersKnown, IsRender
  <1>11. \A m : Live(m)' => Live(m) /\ m \in DOMAIN jobs
    <2> SUFFICES ASSUME NEW m, Live(m)' PROVE Live(m) /\ m \in DOMAIN jobs
      OBVIOUS
    <2>1. IsRender(m) /\ m \in DOMAIN jobs
      BY <1>2 DEF Live, IsRender
    <2>2. CASE jobs'[m].status = "QUEUED"
      BY <1>2, <2>1, <2>2 DEF Live
    <2>3. CASE \E q \in Requests : At(q, "submit")' /\ req'[q].serial = m
      BY <1>9, <2>1, <2>3 DEF Live, At, Pending
    <2> QED
      BY <2>2, <2>3 DEF Live
  <1>12. ASSUME ~belated' PROVE RenderAwaited' /\ LiveOnce'
    <2>1. RenderAwaited /\ LiveOnce
      BY <1>0, <1>2, <1>12
    <2>2. LiveOnce'
      BY <1>2, <1>11, <2>1 DEF LiveOnce
    <2>3. ASSUME NEW m \in DOMAIN jobs', Live(m)', jobs'[m].from[3] = Upstream(video')
          PROVE  /\ w.render.claim = m
                 /\ \/ w.render.job = Placeholder
                    \/ w.render.job = m /\ jobs'[m].status = "QUEUED"
      <3>1. m \in DOMAIN jobs /\ Live(m) /\ jobs[m].from[3] = Upstream(video)
        BY <1>2, <1>3, <1>11, <2>3
      <3>2. /\ video.render.claim = m
            /\ video.render.job = Placeholder \/ (video.render.job = m /\ jobs[m].status = "QUEUED")
        BY <2>1, <3>1 DEF RenderAwaited
      <3>3. CASE what # "render"
        BY <1>2, <1>6, <3>2, <3>3
      <3>4. CASE what = "render"
        <4>1. video.render.claim = i
          BY <1>1, <1>2, <1>12, <3>4 DEF Overtaken
        <4>2. m = i
          BY <3>2, <4>1
        <4>3. ~ \E q \in Requests : At(q, "submit") /\ req[q].serial = i
          BY <1>0, <1>1, <1>2 DEF RequestsKnown, Pending, At
        <4>4. jobs[m].status = "QUEUED"
          BY <3>1, <4>2, <4>3 DEF Live
        <4>5. n = m
          BY <1>0, <1>1, <1>2, <3>4, <4>2, <4>4 DEF RendersKnown
        <4> QED
          BY <1>2, <1>7, <3>2, <3>4, <4>4, <4>5
      <3> QED
        BY <3>3, <3>4
    <2> QED
      BY <1>5, <2>2, <2>3 DEF RenderAwaited
  <1> QED
    BY <1>3, <1>10, <1>12 DEF RenderInv

\* A claim has a serial number no render was made of. It starts a render of its
\* own, leaves what a render is made of, or makes all that were before differ.
LEMMA ClaimRenders ==
    ASSUME RenderInv, OwnedInv', NEW r \in Requests, NEW what, NEW sort, NEW from, NEW v,
           Claim(r, what, sort, from, v), what = "render" <=> sort = "render",
           \/ what # "render" /\ SameRender(video, v)
           \/ what # "render" /\ \E k \in {"brief", "script", "plan"} : v[k].claim = Serial
           \/ /\ what = "render" /\ from[3] = Upstream(video) /\ Upstream(v) = Upstream(video)
              /\ v.render.claim = Serial /\ v.render.job = Placeholder
              /\ video.render.job = None \/ jobs[video.render.job].status # "QUEUED"
              /\ video.render.job # Placeholder
    PROVE  RenderInv'
  <1>0. /\ VideoShape(video) /\ JobsShape(jobs) /\ RequestsKnown /\ ClaimsKnown /\ RendersKnown
        /\ ~belated => RenderAwaited /\ LiveOnce
    BY DEF RenderInv, OwnedInv
  <1>1. PICK new : new = Serial
    OBVIOUS
  <1>2. PICK x, j : x = Job(sort, from, "NONE", {}) /\ j = Append(jobs, x)
    OBVIOUS
  <1>3. /\ DOMAIN x = {"kind", "from", "status", "covers"} /\ x.kind = sort /\ x.from = from
        /\ x.status = "NONE"
    BY <1>2 DEF Job
  <1>4. /\ Len(jobs) \in Nat /\ new = Len(jobs) + 1 /\ DOMAIN jobs = 1..Len(jobs)
        /\ DOMAIN j = 1..new /\ j[new] = x
        /\ \A n \in DOMAIN jobs : j[n] = jobs[n]
    BY <1>0, <1>1, <1>2, <1>3, Appended DEF Serial
  <1>5. jobs' = j /\ video' = v /\ belated' = belated
    BY <1>2 DEF Claim
  <1>6. PICK call : call = [pc |-> "submit", what |-> what, serial |-> Serial]
    OBVIOUS
  <1>7. /\ req[r].pc = "idle" /\ DOMAIN req' = Requests /\ req'[r] = call
        /\ \A q \in Requests : q # r => req'[q] = req[q]
        /\ call.pc = "submit" /\ call.what = what /\ call.serial = new
    BY <1>0, <1>1, <1>6 DEF Claim, Begin, At, RequestsKnown
  <1>8. \A n \in DOMAIN jobs : IsRender(n)' <=> IsRender(n)
    BY <1>4, <1>5 DEF IsRender
  <1>9. IsRender(new)' <=> what = "render"
    BY <1>3, <1>4, <1>5 DEF IsRender
  <1>10. \A k \in StageNames : video[k].claim \in 0..Len(jobs)
    BY <1>0 DEF ClaimsKnown
  <1>11. PICK a, b, c \in 0..Len(jobs) : Upstream(video) = <<a, b, c>>
    BY <1>10, Names DEF Upstream
  <1>12. RendersKnown'
    <2>1. ASSUME NEW q \in Requests, Pending(q)'
          PROVE  /\ req'[q].what = "render" <=> IsRender(req[q].serial)'
                 /\ req'[q].pc = "submit" => jobs'[req'[q].serial].status = "NONE"
                 /\ req'[q].pc = "record" /\ req'[q].what = "render" =>
                    req'[q].job = IF jobs'[req'[q].serial].status = "NONE" THEN None ELSE req'[q].serial
      <3>1. CASE q = r
        BY <1>3, <1>4, <1>5, <1>7, <3>1 DEF IsRender
      <3>2. CASE q # r
        <4>1. Pending(q) /\ req'[q] = req[q] /\ req[q].serial \in DOMAIN jobs
          BY <1>0, <1>7, <2>1, <3>2 DEF Pending, RequestsKnown
        <4> QED
          BY SMTT(30), <1>0, <1>4, <1>5, <4>1 DEF RendersKnown, IsRender
      <3> QED
        BY <3>1, <3>2
    <2>2. ASSUME NEW n \in DOMAIN jobs', IsRender(n)'
          PROVE  \E d, e, f \in 0..(n - 1) : jobs'[n].from[3] = <<d, e, f>>
      <3>1. CASE n \in DOMAIN jobs
        BY <1>0, <1>4, <1>5, <1>8, <2>2, <3>1 DEF RendersKnown
      <3>2. CASE n \notin DOMAIN jobs
        <4>1. n = new
          BY <1>4, <1>5, <3>2
        <4>2. jobs'[n].from[3] = <<a, b, c>> /\ n - 1 = Len(jobs)
          BY <1>3, <1>4, <1>5, <1>9, <1>11, <2>2, <4>1
        <4> QED
          BY <4>2
      <3> QED
        BY <3>1, <3>2
    <2> QED
      BY <2>1, <2>2 DEF RendersKnown
  <1>13. \A n \in DOMAIN jobs : Live(n)' => Live(n)
    <2> SUFFICES ASSUME NEW n \in DOMAIN jobs, Live(n)' PROVE Live(n)
      OBVIOUS
    <2>1. IsRender(n) /\ jobs'[n].status = jobs[n].status /\ n # new
      BY <1>4, <1>5, <1>8 DEF Live
    <2>2. CASE jobs'[n].status = "QUEUED"
      BY <2>1, <2>2 DEF Live
    <2>3. CASE \E q \in Requests : At(q, "submit")' /\ req'[q].serial = n
      BY <1>7, <2>1, <2>3 DEF Live, At
    <2> QED
      BY <2>2, <2>3 DEF Live
  <1>14. ASSUME ~belated' PROVE RenderAwaited' /\ LiveOnce'
    <2>1. RenderAwaited /\ LiveOnce
      BY <1>0, <1>5, <1>14
    <2>2. CASE what = "render"
      <3>1. \A n \in DOMAIN jobs : Live(n)' => jobs[n].from[3] # Upstream(video)
        <4> SUFFICES ASSUME NEW n \in DOMAIN jobs, Live(n)', jobs[n].from[3] = Upstream(video)
                     PROVE  FALSE
          OBVIOUS
        <4>1. video.render.job = Placeholder \/ (video.render.job = n /\ jobs[n].status = "QUEUED")
          BY <1>13, <2>1 DEF RenderAwaited
        <4>2. n # None
          BY <1>4, VideoAssumption
        <4> QED
          BY <2>2, <4>1, <4>2
      <3>2. \A n \in DOMAIN jobs' : n \in DOMAIN jobs \/ n = new
        BY <1>4, <1>5
      <3>3. /\ jobs'[new].from[3] = Upstream(video) /\ Upstream(video') = Upstream(video)
            /\ video'.render.claim = new /\ video'.render.job = Placeholder
        BY <1>1, <1>3, <1>4, <1>5, <2>2
      <3>4. \A n \in DOMAIN jobs : jobs'[n].from = jobs[n].from
        BY <1>4, <1>5
      <3>5. RenderAwaited'
        BY <3>1, <3>2, <3>3, <3>4 DEF RenderAwaited
      <3>6. LiveOnce'
        BY <1>13, <2>1, <3>1, <3>2, <3>3, <3>4 DEF LiveOnce
      <3> QED
        BY <3>5, <3>6
    <2>3. CASE what # "render"
      <3>1. \A n \in DOMAIN jobs' : Live(n)' => n \in DOMAIN jobs /\ Live(n) /\ jobs'[n] = jobs[n]
        BY <1>4, <1>5, <1>9, <1>13, <2>3 DEF Live
      <3>2. LiveOnce'
        BY <2>1, <3>1 DEF LiveOnce
      <3>3. CASE SameRender(video, v)
        BY <1>5, <2>1, <3>1, <3>2, <3>3 DEF RenderAwaited, SameRender
      <3>4. CASE \E k \in {"brief", "script", "plan"} : v[k].claim = Serial
        <4>1. Upstream(v)[1] = new \/ Upstream(v)[2] = new \/ Upstream(v)[3] = new
          BY <1>1, <3>4 DEF Upstream
        <4>2. \A n \in DOMAIN jobs : IsRender(n) => jobs[n].from[3] # Upstream(v)
          <5> SUFFICES ASSUME NEW n \in DOMAIN jobs, IsRender(n), jobs[n].from[3] = Upstream(v)
                       PROVE  FALSE
            OBVIOUS
          <5>1. PICK d, e, f \in 0..(n - 1) : jobs[n].from[3] = <<d, e, f>>
            BY <1>0 DEF RendersKnown
          <5>2. Upstream(v)[1] = d /\ Upstream(v)[2] = e /\ Upstream(v)[3] = f
            BY <5>1
          <5> QED
            BY <1>4, <4>1, <5>1, <5>2
        <4>3. RenderAwaited'
          BY <1>5, <3>1, <4>2 DEF RenderAwaited, Live
        <4> QED
          BY <3>2, <4>3
      <3> QED
        BY <2>3, <3>3, <3>4
    <2> QED
      BY <2>2, <2>3
  <1> QED
    BY <1>12, <1>14 DEF RenderInv
LEMMA ClaimStageRenders ==
    ASSUME RenderInv, NEW r \in Requests, NEW k \in TextStages, ClaimStage(r, k)
    PROVE  RenderInv'
  <1>0. OwnedInv /\ VideoShape(video)
    BY DEF RenderInv, OwnedInv
  <1>1. OwnedInv'
    BY <1>0, ClaimStageKeeps
  <1>2. PICK v : v = Finalized
    OBVIOUS
  <1>3. SameRender(video, v) /\ VideoShape(v) /\ DOMAIN v = VideoFields
    BY <1>0, <1>2, FinalizedFrom, ShapeFields DEF Follows
  <1>4. PICK x, y : x = ScriptReset(v) /\ y = RenderReset(v)
    OBVIOUS
  <1>5. DOMAIN x = VideoFields /\ DOMAIN y = VideoFields
    BY <1>3, <1>4, ScriptResetFrom, RenderResetFrom, ShapeFields DEF Follows
  <1>6. Generating.claim = Serial
    BY DEF Generating, NoText
  <1>7. SUFFICES \E from, w : /\ Claim(r, k, k, from, w)
                              /\ \/ SameRender(video, w)
                                 \/ \E s \in {"brief", "script", "plan"} : w[s].claim = Serial
    BY <1>1, Names, ClaimRenders
  <1>8. CASE k = "brief"
    <2>1. PICK w : w = [x EXCEPT !.brief = Generating, !.script = NoText]
      OBVIOUS
    <2>2. Claim(r, k, k, <<>>, w)
      BY <1>2, <1>4, <1>8, <2>1 DEF ClaimStage
    <2>3. w["brief"] = Generating
      BY <1>5, <2>1 DEF VideoFields
    <2> QED
      BY <1>6, <2>2, <2>3
  <1>9. CASE k = "script"
    <2>1. PICK w : w = [x EXCEPT !.script = Generating]
      OBVIOUS
    <2>2. Claim(r, k, k, <<v.brief.artifact>>, w)
      BY <1>2, <1>4, <1>9, <2>1 DEF ClaimStage
    <2>3. w["script"] = Generating
      BY <1>5, <2>1 DEF VideoFields
    <2> QED
      BY <1>6, <2>2, <2>3
  <1>10. CASE k = "plan"
    <2>1. PICK w : w = [y EXCEPT !.plan = Generating]
      OBVIOUS
    <2>2. Claim(r, k, k, <<v.script.artifact>>, w)
      BY <1>2, <1>4, <1>10, <2>1 DEF ClaimStage
    <2>3. w["plan"] = Generating
      BY <1>5, <2>1 DEF VideoFields
    <2> QED
      BY <1>6, <2>2, <2>3
  <1>11. CASE k = "seo"
    <2>1. PICK w : w = [v EXCEPT !.seo = Generating, !.score = NoScore]
      OBVIOUS
    <2>2. Claim(r, k, k, <<v.script.artifact>>, w)
      BY <1>2, <1>11, <2>1 DEF ClaimStage
    <2>3. w.brief = v.brief /\ w.script = v.script /\ w.plan = v.plan /\ w.render = v.render
      BY <1>3, <2>1 DEF VideoFields
    <2>4. SameRender(video, w)
      BY <1>3, <2>3 DEF SameRender, Upstream
    <2> QED
      BY <2>2, <2>4
  <1> QED
    BY <1>8, <1>9, <1>10, <1>11, Names

LEMMA MediaClaimRenders ==
    ASSUME RenderInv, NEW r \in Requests,
           \/ \E s \in Scenes : GenerateSceneImage(r, s)
           \/ \E p \in Profiles : GenerateVoice(r, p)
           \/ GenerateSubtitles(r)
    PROVE  RenderInv'
  <1>0. OwnedInv /\ VideoShape(video)
    BY DEF RenderInv, OwnedInv
  <1>1. OwnedInv'
    BY <1>0, MediaClaimKeeps
  <1>2. PICK v : v = Media(video)
    OBVIOUS
  <1>3. SameRender(video, v) /\ DOMAIN v = VideoFields
    BY <1>0, <1>2, MediaFrom, ShapeFields DEF Follows
  <1>4. SUFFICES \E what, sort, from, w :
                    /\ what # "render" /\ sort # "render" /\ Claim(r, what, sort, from, w)
                    /\ w.brief = v.brief /\ w.script = v.script /\ w.plan = v.plan
                    /\ w.render = v.render
    <2>1. \A w : (/\ w.brief = v.brief /\ w.script = v.script /\ w.plan = v.plan
                  /\ w.render = v.render) => SameRender(video, w)
      BY <1>3 DEF SameRender, Upstream
    <2> QED
      BY <1>1, <2>1, ClaimRenders
  <1>5. ASSUME NEW s \in Scenes, GenerateSceneImage(r, s)
        PROVE  \E what, sort, from, w :
                    /\ what # "render" /\ sort # "render" /\ Claim(r, what, sort, from, w)
                    /\ w.brief = v.brief /\ w.script = v.script /\ w.plan = v.plan
                    /\ w.render = v.render
    <2>1. PICK w : w = [v EXCEPT !.scenes[s].job = Placeholder, !.scenes[s].claim = Serial]
      OBVIOUS
    <2>2. Claim(r, s, "image", <<s, v.plan.artifact>>, w) /\ s # "render"
      BY <1>2, <1>5, <2>1, Names, VideoAssumption DEF GenerateSceneImage
    <2>3. w.brief = v.brief /\ w.script = v.script /\ w.plan = v.plan /\ w.render = v.render
      BY <1>3, <2>1 DEF VideoFields
    <2>4. PICK sort : sort = "image"
      OBVIOUS
    <2>5. PICK from : from = <<s, v.plan.artifact>>
      OBVIOUS
    <2> QED
      BY <2>2, <2>3, <2>4, <2>5
  <1>6. ASSUME NEW p \in Profiles, GenerateVoice(r, p)
        PROVE  \E what, sort, from, w :
                    /\ what # "render" /\ sort # "render" /\ Claim(r, what, sort, from, w)
                    /\ w.brief = v.brief /\ w.script = v.script /\ w.plan = v.plan
                    /\ w.render = v.render
    <2>1. PICK a, b : /\ a = [NoVoice EXCEPT !.status = "RUNNING", !.claim = Serial, !.job = Placeholder]
                      /\ b = IF v.subs.status = "PENDING" THEN v.subs ELSE NoSubs
      OBVIOUS
    <2>2. PICK w : w = [v EXCEPT !.voice = a, !.subs = b]
      OBVIOUS
    <2>3. PICK sort, from : sort = "voice" /\ from = <<p, v.script.artifact>>
      OBVIOUS
    <2>4. Claim(r, sort, sort, from, w)
      BY <1>2, <1>3, <1>6, <2>1, <2>2, <2>3 DEF GenerateVoice, VideoFields
    <2>5. w.brief = v.brief /\ w.script = v.script /\ w.plan = v.plan /\ w.render = v.render
      BY <1>3, <2>2 DEF VideoFields
    <2> QED
      BY <2>3, <2>4, <2>5
  <1>7. ASSUME GenerateSubtitles(r)
        PROVE  \E what, sort, from, w :
                    /\ what # "render" /\ sort # "render" /\ Claim(r, what, sort, from, w)
                    /\ w.brief = v.brief /\ w.script = v.script /\ w.plan = v.plan
                    /\ w.render = v.render
    <2>1. PICK b : b = [v.subs EXCEPT !.status = "RUNNING", !.claim = Serial, !.job = Placeholder, !.vtt = None]
      OBVIOUS
    <2>2. PICK w : w = [v EXCEPT !.subs = b]
      OBVIOUS
    <2>3. PICK sort, from : sort = "subs" /\ from = <<v.voice.audio>>
      OBVIOUS
    <2>4. Claim(r, sort, sort, from, w)
      BY <1>2, <1>3, <1>7, <2>1, <2>2, <2>3 DEF GenerateSubtitles, VideoFields
    <2>5. w.brief = v.brief /\ w.script = v.script /\ w.plan = v.plan /\ w.render = v.render
      BY <1>3, <2>2 DEF VideoFields
    <2> QED
      BY <2>3, <2>4, <2>5
  <1> QED
    BY <1>5, <1>6, <1>7

LEMMA SubmitRenderRenders ==
    ASSUME RenderInv, NEW r \in Requests, SubmitRender(r)
    PROVE  RenderInv'
  <1>0. OwnedInv /\ VideoShape(video) /\ JobsShape(jobs)
    BY DEF RenderInv, OwnedInv
  <1>1. OwnedInv'
    BY <1>0, SubmitRenderKeeps
  <1>2. PICK v : v = Reconciled(video)
    OBVIOUS
  <1>3. SameRender(video, v) /\ DOMAIN v = VideoFields
    BY <1>0, <1>2, ReconciledFrom, ShapeFields DEF Follows
  <1>4. PICK a, x, y : /\ a = [status |-> "RUNNING", job |-> Placeholder, claim |-> Serial]
                       /\ x = Frozen(v) /\ y = Upstream(v)
    OBVIOUS
  <1>5. PICK w, from : w = [v EXCEPT !.render = a, !.qa = NoQa] /\ from = <<x, v.plan.artifact, y>>
    OBVIOUS
  <1>6. PICK what : what = "render"
    OBVIOUS
  <1>7. Claim(r, what, what, from, w)
    BY <1>2, <1>4, <1>5, <1>6 DEF SubmitRender
  <1>8. /\ w.render.claim = Serial /\ w.render.job = Placeholder
        /\ w.brief = v.brief /\ w.script = v.script /\ w.plan = v.plan
    BY <1>3, <1>4, <1>5 DEF VideoFields
  <1>9. from[3] = Upstream(video) /\ Upstream(w) = Upstream(video)
    BY <1>3, <1>4, <1>5, <1>8 DEF SameRender, Upstream
  <1>10. video.render.job = None \/ (video.render.job \in DOMAIN jobs /\ jobs[video.render.job].status # "QUEUED")
    BY <1>2, <1>3 DEF SubmitRender, SameRender, NoJobYet
  <1>11. video.render.job # Placeholder
    <2>1. DOMAIN jobs = 1..Len(jobs)
      BY <1>0 DEF JobsShape
    <2> QED
      BY <1>10, <2>1, VideoAssumption DEF Placeholder
  <1> QED
    BY <1>1, <1>6, <1>7, <1>8, <1>9, <1>10, <1>11, ClaimRenders

LEMMA RenderInit == VideoInit => RenderInv
  <1> SUFFICES ASSUME VideoInit PROVE RenderInv
    OBVIOUS
  <1>1. OwnedInv /\ JobsShape(jobs)
    BY OwnedInit DEF OwnedInv
  <1>2. \A r \in Requests : req[r].pc = "idle"
    BY DEF VideoInit, Idle
  <1>3. /\ \A n \in DOMAIN jobs : jobs[n].status = "COMPLETED"
        /\ \A n \in DOMAIN jobs : IsRender(n) =>
               \E a, b, c \in 0..(n - 1) : jobs[n].from[3] = <<a, b, c>>
    <2>1. CASE jobs = <<>>
      BY <2>1
    <2>2. CASE \E s \in Scenes, u \in Uploads :
                  video = Produced(s, u) /\ jobs = ProducedJobs(s, u, CHOOSE p \in Profiles : TRUE)
      <3>1. PICK s, u, p : video = Produced(s, u) /\ jobs = ProducedJobs(s, u, p)
        BY <2>2
      <3>2. /\ Len(jobs) = 7 /\ \A n \in 1..7 : jobs[n].status = "COMPLETED"
            /\ \A n \in 1..7 : jobs[n].kind = "render" => n = 7
            /\ jobs[7].from[3] = <<1, 2, 3>>
        BY <3>1, ProducedShape, ProducedFields
      <3>3. DOMAIN jobs = 1..7
        BY <1>1, <3>2 DEF JobsShape
      <3>4. 1 \in 0..(7 - 1) /\ 2 \in 0..(7 - 1) /\ 3 \in 0..(7 - 1)
        OBVIOUS
      <3> QED
        BY <3>2, <3>3, <3>4 DEF IsRender
    <2> QED
      BY <2>1, <2>2 DEF VideoInit
  <1>4. \A n : ~Live(n)
    BY <1>2, <1>3 DEF Live, IsRender, At
  <1>5. RendersKnown
    BY <1>2, <1>3 DEF RendersKnown, Pending
  <1> QED
    BY <1>1, <1>4, <1>5 DEF RenderInv, RenderAwaited, LiveOnce

LEMMA RenderStep ==
    ASSUME RenderInv, [Next]_vars
    PROVE  RenderInv'
  <1>0. OwnedInv /\ VideoShape(video) /\ RequestsKnown
    BY DEF RenderInv, OwnedInv
  <1>1. OwnedInv'
    BY <1>0, OwnedStep
  <1>2. ASSUME NEW r \in Requests, NEW k \in TextStages, ClaimStage(r, k) PROVE RenderInv'
    BY <1>2, ClaimStageRenders
  <1>3. ASSUME NEW r \in Requests,
               \/ \E s \in Scenes : GenerateSceneImage(r, s)
               \/ \E p \in Profiles : GenerateVoice(r, p)
               \/ GenerateSubtitles(r)
        PROVE  RenderInv'
    BY <1>3, MediaClaimRenders
  <1>4. ASSUME NEW r \in Requests, SubmitRender(r) PROVE RenderInv'
    BY <1>4, SubmitRenderRenders
  <1>5. ASSUME NEW r \in Requests, SubmitJob(r) PROVE RenderInv'
    BY <1>1, <1>5, SubmitJobRenders
  <1>6. ASSUME NEW r \in Requests, RecordJob(r) PROVE RenderInv'
    BY <1>6, RecordJobRenders
  <1>7. ASSUME NEW r \in Requests, ReviewStep(r) PROVE RenderInv'
    <2>1. /\ UNCHANGED jobs /\ SameRender(video, video') /\ (belated => belated') /\ ~Pending(r)
          /\ \/ UNCHANGED req
             \/ \E call : req' = [req EXCEPT ![r] = call] /\ call.pc \notin {"submit", "record"}
      BY <1>0, <1>7, ReviewFollows
    <2>2. \A q \in Requests : Pending(q)' => Pending(q) /\ req'[q] = req[q]
      <3>1. CASE UNCHANGED req
        BY <3>1 DEF Pending
      <3>2. CASE \E call : req' = [req EXCEPT ![r] = call] /\ call.pc \notin {"submit", "record"}
        BY <1>0, <3>2 DEF Pending, RequestsKnown
      <3> QED
        BY <2>1, <3>1, <3>2
    <2> QED
      BY <1>1, <2>1, <2>2, RenderFrame
  <1>8. ASSUME NEW r \in Requests, Abort(r) PROVE RenderInv'
    <2>1. UNCHANGED <<jobs, video, belated>> /\ req' = [req EXCEPT ![r] = Idle] /\ Idle.pc = "idle"
      BY <1>8 DEF Abort, Done, Idle
    <2>2. \A q \in Requests : Pending(q)' => Pending(q) /\ req'[q] = req[q]
      BY <1>0, <2>1 DEF Pending, RequestsKnown
    <2>3. SameRender(video, video')
      BY <2>1 DEF SameRender
    <2> QED
      BY <1>1, <2>1, <2>2, <2>3, RenderFrame
  <1>9. ASSUME \/ EnsureAiStagesFinalized \/ ApproveScript
               \/ \E s \in Scenes, u \in Uploads : AttachSceneAsset(s, u)
        PROVE  RenderInv'
    <2>1. UNCHANGED <<req, jobs, belated>> /\ SameRender(video, video')
      BY <1>0, <1>9, TransactionFollows
    <2>2. \A q \in Requests : Pending(q)' => Pending(q) /\ req'[q] = req[q]
      BY <2>1 DEF Pending
    <2> QED
      BY <1>1, <2>1, <2>2, RenderFrame
  <1>10. ASSUME OutsideStep PROVE RenderInv'
    <2>1. /\ UNCHANGED <<video, req, belated>> /\ DOMAIN jobs' = DOMAIN jobs
          /\ \A n \in DOMAIN jobs :
                  /\ jobs'[n].kind = jobs[n].kind /\ jobs'[n].from = jobs[n].from
                  /\ jobs'[n].status = "QUEUED" => jobs[n].status = "QUEUED"
                  /\ jobs'[n].status = "NONE" <=> jobs[n].status = "NONE"
      BY <1>0, <1>10, OutsideKeeps
    <2>2. \A q \in Requests : Pending(q)' => Pending(q) /\ req'[q] = req[q]
      BY <2>1 DEF Pending
    <2>3. SameRender(video, video')
      BY <2>1 DEF SameRender
    <2> QED
      BY <1>1, <2>1, <2>2, <2>3, RenderFrame
  <1>11. CASE UNCHANGED vars
    <2>1. UNCHANGED <<video, jobs, req, belated>>
      BY <1>11 DEF vars
    <2>2. \A q \in Requests : Pending(q)' => Pending(q) /\ req'[q] = req[q]
      BY <2>1 DEF Pending
    <2>3. SameRender(video, video')
      BY <2>1 DEF SameRender
    <2> QED
      BY <1>1, <2>1, <2>2, <2>3, RenderFrame
  <1> QED
    BY <1>2, <1>3, <1>4, <1>5, <1>6, <1>7, <1>8, <1>9, <1>10, <1>11
    DEF Next, Request, ReviewStep, OutsideStep

\* Two jobs of a video never render at the same time unless a stage before the
\* render was generated in between, as long as no request recorded a job in a
\* stage that had become another's (the guard of submitRender, with the
\* placeholder and the submission outside of the lock).
THEOREM VideoSpecOneRender == Spec => []OneRender
  <1>1. VideoInit => RenderInv
    BY RenderInit
  <1>2. RenderInv /\ [Next]_vars => RenderInv'
    BY RenderStep
  <1>3. RenderInv => OneRender
    <2> SUFFICES ASSUME RenderInv, ~belated, NEW n \in LiveRenders, NEW m \in LiveRenders,
                        jobs[n].from[3] = jobs[m].from[3]
                 PROVE  n = m
      BY DEF OneRender
    <2>1. Live(n) /\ Live(m)
      BY DEF LiveRenders, Live, IsRender
    <2> QED
      BY <2>1 DEF RenderInv, LiveOnce, LiveRenders
  <1> QED
    BY <1>1, <1>2, <1>3, PTL DEF Spec

-----------------------------------------------------------------------------
(* VideoPipeline, what a video is made of: a text stage has the job of its  *)
(* last claim and nothing else, and none of it while that claim is pending; *)
(* what was claimed last was claimed of what is there, because a claim      *)
(* starts everything after its stage again. What a submission finds is what *)
(* a reconciliation would leave as it is, so that the narration, the        *)
(* subtitles and the render, which may be older, are compared with the rest *)
(* of the video once more.                                                  *)

-----------------------------------------------------------------------------
\* What the operations on the state of the pipeline leave of its parts.
LEMMA JobNumbers ==
    ASSUME JobsShape(jobs)
    PROVE  /\ Len(jobs) \in Nat /\ DOMAIN jobs = 1..Len(jobs)
           /\ None \notin DOMAIN jobs /\ Placeholder \notin DOMAIN jobs /\ None # Placeholder
  <1>1. jobs \in Seq({jobs[n] : n \in DOMAIN jobs})
    BY DEF JobsShape
  <1> DEFINE S == {jobs[n] : n \in DOMAIN jobs}
  <1> HIDE DEF S
  <1>2. Len(jobs) \in Nat /\ DOMAIN jobs = 1..Len(jobs)
    BY <1>1 DEF S
  <1> QED
    BY <1>2, VideoAssumption DEF Placeholder

LEMMA FinalTextsFields ==
    ASSUME NEW v, VideoShape(v)
    PROVE  /\ VideoShape(FinalTexts(v))
           /\ FinalTexts(v).brief = FinalText(v.brief, TRUE)
           /\ FinalTexts(v).script = FinalText(v.script, TRUE)
           /\ \E valid : FinalTexts(v).plan = FinalText(v.plan, valid)
           /\ FinalTexts(v).seo = FinalText(v.seo, TRUE)
           /\ FinalTexts(v).columns = Columns(v, FinalTexts(v).seo)
           /\ \A f \in {"voice", "subs", "render", "scenes", "qa", "score"} : FinalTexts(v)[f] = v[f]
  <1>1. PICK b, c, p, q, o, d : /\ b = FinalText(v.brief, TRUE) /\ c = FinalText(v.script, TRUE)
                                /\ o = (c.artifact # None)
                                /\ p = FinalText(v.plan, o) /\ q = FinalText(v.seo, TRUE)
                                /\ d = Columns(v, q)
    OBVIOUS
  <1>2. PICK w : w = [v EXCEPT !.brief = b, !.script = c, !.plan = p, !.seo = q, !.columns = d]
    OBVIOUS
  <1>3. w = FinalTexts(v)
    BY <1>1, <1>2 DEF FinalTexts
  <1>4. DOMAIN v = VideoFields
    BY ShapeFields
  <1>5. /\ w.brief = b /\ w.script = c /\ w.plan = p /\ w.seo = q /\ w.columns = d
        /\ \A f \in {"voice", "subs", "render", "scenes", "qa", "score"} : w[f] = v[f]
    BY <1>2, <1>4 DEF VideoFields
  <1>6. VideoShape(w)
    BY <1>3, FinalTextsFrom DEF Follows
  <1> QED
    BY <1>1, <1>3, <1>5, <1>6

LEMMA MediaFields ==
    ASSUME NEW v, VideoShape(v)
    PROVE  /\ VideoShape(Media(v))
           /\ Media(v).scenes = ScenesOf(v) /\ Media(v).voice = VoiceOf(v)
           /\ Media(v).subs = SubsOf(v, VoiceOf(v))
           /\ \A f \in TextStages \cup {"render", "qa", "score", "columns"} : Media(v)[f] = v[f]
  <1>1. PICK a, b, c : a = VoiceOf(v) /\ b = SubsOf(v, a) /\ c = ScenesOf(v)
    OBVIOUS
  <1>2. PICK w : w = [v EXCEPT !.scenes = c, !.voice = a, !.subs = b]
    OBVIOUS
  <1>3. w = Media(v)
    BY <1>1, <1>2 DEF Media
  <1>4. DOMAIN v = VideoFields
    BY ShapeFields
  <1>5. /\ w.voice = a /\ w.subs = b /\ w.scenes = c
        /\ \A f \in TextStages \cup {"render", "qa", "score", "columns"} : w[f] = v[f]
    BY <1>2, <1>4, Names DEF VideoFields
  <1>6. VideoShape(w)
    BY <1>3, MediaFrom DEF Follows
  <1> QED
    BY <1>1, <1>3, <1>5, <1>6

LEMMA RenderedFields ==
    ASSUME NEW v, VideoShape(v)
    PROVE  /\ VideoShape(Rendered(v))
           /\ Rendered(v).render.status = RenderStatus(v)
           /\ Rendered(v).render.job = v.render.job /\ Rendered(v).render.claim = v.render.claim
           /\ \A f \in VideoFields \ {"render"} : Rendered(v)[f] = v[f]
  <1>1. PICK st : st = RenderStatus(v)
    OBVIOUS
  <1>2. PICK w : w = [v EXCEPT !.render.status = st]
    OBVIOUS
  <1>3. w = Rendered(v)
    BY <1>1, <1>2 DEF Rendered
  <1>4. DOMAIN v = VideoFields /\ DOMAIN v.render = {"status", "job", "claim"}
    BY ShapeFields, Fields DEF VideoShape
  <1>5. /\ w.render.status = st /\ w.render.job = v.render.job /\ w.render.claim = v.render.claim
        /\ \A f \in VideoFields \ {"render"} : w[f] = v[f]
    BY <1>2, <1>4 DEF VideoFields
  <1>6. VideoShape(w)
    BY <1>3, RenderedFrom DEF Follows
  <1> QED
    BY <1>1, <1>3, <1>5, <1>6

LEMMA QaFields ==
    ASSUME NEW v, VideoShape(v)
    PROVE  /\ VideoShape(QaOf(v)) /\ \A f \in VideoFields \ {"qa"} : QaOf(v)[f] = v[f]
           /\ QaOf(v).qa = v.qa \/ QaOf(v).qa = NoQa
           /\ QaOf(v).qa.passed => v.render.status = "READY" /\ v.qa.render = v.render.job
  <1>1. DOMAIN v = VideoFields
    BY ShapeFields
  <1>2. VideoShape(QaOf(v))
    BY QaFrom DEF Follows
  <1>3. CASE v.render.status # "READY" \/ v.qa.render # v.render.job
    <2>1. QaOf(v) = [v EXCEPT !.qa = NoQa]
      BY <1>3 DEF QaOf
    <2> QED
      BY <1>1, <1>2, <2>1 DEF VideoFields, NoQa
  <1>4. CASE ~(v.render.status # "READY" \/ v.qa.render # v.render.job)
    BY <1>2, <1>4 DEF QaOf
  <1> QED
    BY <1>3, <1>4

-----------------------------------------------------------------------------
\* A stage takes over the job of its last claim, or fails.
LEMMA FinalTextKnown ==
    ASSUME JobsShape(jobs), NEW a, DOMAIN a = DOMAIN NoText, TextKnown(a), NEW valid
    PROVE  /\ TextKnown(FinalText(a, valid)) /\ FinalText(a, valid).claim = a.claim
           /\ Passed(a) \/ a.job = None \/ a.artifact # None => FinalText(a, valid) = a
  <1>1. PICK b : b = FinalText(a, valid)
    OBVIOUS
  <1>2. Passed(a) => b = a
    BY <1>1 DEF FinalText, Passed
  <1>3. a.job = None => b = a
    BY <1>1, JobNumbers DEF FinalText, Ended
  <1>4. b = a \/ (~Passed(a) /\ a.job \in DOMAIN jobs
                  /\ b \in {[a EXCEPT !.status = "READY", !.artifact = a.job], [a EXCEPT !.status = "FAILED"]})
    BY <1>1 DEF FinalText, Passed, Ended
  <1>5. a.artifact # None => Passed(a)
    BY DEF TextKnown
  <1>6. TextKnown(b) /\ b.claim = a.claim
    <2>1. CASE b = a
      BY <2>1
    <2>2. CASE b # a
      <3>1. a.job = a.claim /\ a.artifact = None
        BY <1>4, <2>2, JobNumbers DEF TextKnown
      <3>2. CASE b = [a EXCEPT !.status = "READY", !.artifact = a.job]
        BY <1>4, <2>2, <3>1, <3>2, Fields DEF TextKnown, Passed
      <3>3. CASE b = [a EXCEPT !.status = "FAILED"]
        BY <1>4, <2>2, <3>1, <3>3, Fields DEF TextKnown, Passed
      <3> QED
        BY <1>4, <2>2, <3>2, <3>3
    <2> QED
      BY <2>1, <2>2
  <1> QED
    BY <1>1, <1>2, <1>3, <1>5, <1>6

\* What is said of a video speaks of some of its parts only.
LEMMA TracedParts ==
    ASSUME NEW v, NEW w, Traced(v), w.render.job = v.render.job, w.render.claim = v.render.claim,
           w.score = v.score, \A k \in TextStages : w[k] = v[k],
           MediaKnown(w)
    PROVE  Traced(w)
  <1>1. w.brief = v.brief /\ w.script = v.script /\ w.plan = v.plan /\ w.seo = v.seo
    BY Names
  <1>2. ~belated => TextsKnown(w)
    BY DEF Traced, TextsKnown
  <1>3. ~belated => ChainKnown(w)
    <2> SUFFICES ASSUME ~belated PROVE ChainKnown(w)
      OBVIOUS
    <2>1. ChainKnown(v)
      BY DEF Traced
    <2>2. w["plan"] = v["plan"] /\ w["seo"] = v["seo"]
      BY <1>1
    <2>3. \A k \in {"plan", "seo"} : w[k] = v[k]
      BY <2>2
    <2> QED
      BY <1>1, <2>1, <2>3 DEF ChainKnown, Artifacts
  <1> QED
    BY <1>2, <1>3 DEF Traced

LEMMA FinalTextsTraced ==
    ASSUME JobsShape(jobs), NEW v, VideoShape(v), Traced(v)
    PROVE  Traced(FinalTexts(v))
  <1>1. PICK w : w = FinalTexts(v)
    OBVIOUS
  <1>2. /\ w.brief = FinalText(v.brief, TRUE) /\ w.script = FinalText(v.script, TRUE)
        /\ \E valid : w.plan = FinalText(v.plan, valid)
        /\ w.seo = FinalText(v.seo, TRUE)
        /\ w.voice = v.voice /\ w.subs = v.subs /\ w.render = v.render /\ w.score = v.score
    BY <1>1, FinalTextsFields
  <1>3. MediaKnown(w)
    BY <1>2 DEF Traced, MediaKnown
  <1>4. ASSUME ~belated PROVE TextsKnown(w) /\ ChainKnown(w)
    <2>1. TextsKnown(v) /\ ChainKnown(v)
      BY <1>4 DEF Traced
    <2>2. \A k \in TextStages : DOMAIN v[k] = DOMAIN NoText /\ TextKnown(v[k])
      BY <2>1 DEF VideoShape, TextsKnown
    <2>3. \A k \in TextStages : \E valid : w[k] = FinalText(v[k], valid)
      BY <1>2, Names
    <2>4. \A k \in TextStages :
              /\ TextKnown(w[k]) /\ w[k].claim = v[k].claim
              /\ Passed(v[k]) \/ v[k].job = None \/ v[k].artifact # None => w[k] = v[k]
      <3> SUFFICES ASSUME NEW k \in TextStages
                   PROVE  /\ TextKnown(w[k]) /\ w[k].claim = v[k].claim
                          /\ Passed(v[k]) \/ v[k].job = None \/ v[k].artifact # None => w[k] = v[k]
        OBVIOUS
      <3>1. PICK valid : w[k] = FinalText(v[k], valid)
        BY <2>3
      <3>2. PICK a : a = v[k]
        OBVIOUS
      <3> QED
        BY <2>2, <3>1, <3>2, FinalTextKnown
    <2>5. TextsKnown(w)
      BY <2>1, <2>4 DEF TextsKnown
    <2>6. /\ w.script.claim = v.script.claim /\ w.plan.claim = v.plan.claim /\ w.seo.claim = v.seo.claim
          /\ Passed(v.brief) => w.brief = v.brief
          /\ Passed(v.script) \/ v.script.artifact # None => w.script = v.script
          /\ Passed(v.plan) \/ v.plan.artifact # None => w.plan = v.plan
          /\ v.seo.artifact # None => w.seo = v.seo
      BY <2>4, Names
    <2>7. ChainKnown(w)
      <3>1. /\ w.script.claim # 0 =>
                  w.brief.status = "READY" /\ jobs[w.script.claim].from = <<w.brief.artifact>>
            /\ \A k \in {"plan", "seo"} : w[k].claim # 0 =>
                  w.script.status = "APPROVED" /\ jobs[w[k].claim].from = <<w.script.artifact>>
            /\ w.render.claim # 0 =>
                  w.plan.status = "READY" /\ jobs[w.render.claim].from[2] = w.plan.artifact
        BY <1>2, <2>1, <2>6 DEF ChainKnown, Passed
      <3>2. w.render.job \in {None, Placeholder, w.render.claim}
        BY <1>2, <2>1 DEF ChainKnown
      <3>3. ASSUME w.score.passed, NEW i \in 1..3
            PROVE  w.score.seen[i] \in {None, Artifacts(w)[i]}
        <4>1. v.score.seen[i] \in {None, Artifacts(v)[i]}
          BY <1>2, <2>1, <3>3 DEF ChainKnown
        <4>2. CASE i = 1
          BY <1>2, <2>6, <4>1, <4>2 DEF Artifacts
        <4>3. CASE i = 2
          BY <1>2, <2>6, <4>1, <4>3 DEF Artifacts
        <4>4. CASE i = 3
          BY <1>2, <2>6, <4>1, <4>4 DEF Artifacts
        <4> QED
          BY <4>2, <4>3, <4>4
      <3>4. w.score.passed /\ w.plan.claim # 0 => w.score.seen[1] # None
        BY <1>2, <2>1, <2>6 DEF ChainKnown
      <3> QED
        BY <3>1, <3>2, <3>3, <3>4 DEF ChainKnown
    <2> QED
      BY <2>5, <2>7
  <1> QED
    BY <1>1, <1>3, <1>4 DEF Traced
LEMMA VoiceTracedFrom ==
    ASSUME JobsShape(jobs), NEW v, VideoShape(v), MediaKnown(v)
    PROVE  /\ VoiceOf(v).job \in {None, Placeholder} \cup Made("voice")
           /\ VoiceOf(v).status = "READY" =>
                 /\ VoiceOf(v).audio \in Made("voice")
                 /\ VoiceOf(v).hash = jobs[VoiceOf(v).audio].from[2]
                 /\ v.script.artifact \in {None, VoiceOf(v).hash}
  <1>1. PICK a, b : a = VoiceTaken(v.voice) /\ b = VoiceOf(v)
    OBVIOUS
  <1>2. DOMAIN v.voice = {"status", "job", "audio", "hash", "claim"}
    BY Fields DEF VideoShape
  <1>3. Ended(v.voice.job) => v.voice.job \in Made("voice")
    BY JobNumbers DEF MediaKnown, Ended
  <1>4. /\ a.job \in {None, Placeholder} \cup Made("voice")
        /\ a.status = "READY" => a.audio \in Made("voice") /\ a.hash = jobs[a.audio].from[2]
        /\ DOMAIN a = DOMAIN v.voice
    BY <1>1, <1>2, <1>3 DEF VoiceTaken, MediaKnown
  <1>5. \/ b = [a EXCEPT !.status = "PENDING"]
        \/ b = a /\ (a.status = "READY" => v.script.artifact \in {None, a.hash})
    BY <1>1 DEF VoiceOf
  <1> QED
    BY <1>1, <1>2, <1>4, <1>5

LEMMA SubsTracedFrom ==
    ASSUME JobsShape(jobs), NEW v, VideoShape(v), MediaKnown(v), NEW voice,
           SubsFollowVoice
    PROVE  /\ SubsOf(v, voice).job \in {None, Placeholder} \cup Made("subs")
           /\ SubsOf(v, voice).status = "READY" =>
                 /\ SubsOf(v, voice).vtt \in Made("subs")
                 /\ jobs[SubsOf(v, voice).vtt].from = <<SubsOf(v, voice).source>>
                 /\ SubsOf(v, voice).source = voice.audio
  <1>1. PICK a, b : a = SubsTaken(v.subs) /\ b = SubsOf(v, voice)
    OBVIOUS
  <1>2. DOMAIN v.subs = {"status", "job", "vtt", "source", "claim"}
    BY Fields DEF VideoShape
  <1>3. Ended(v.subs.job) => v.subs.job \in Made("subs")
    BY JobNumbers DEF MediaKnown, Ended
  <1>4. /\ a.job \in {None, Placeholder} \cup Made("subs")
        /\ a.status = "READY" => a.vtt \in Made("subs") /\ jobs[a.vtt].from = <<a.source>>
        /\ DOMAIN a = DOMAIN v.subs
    BY <1>1, <1>2, <1>3 DEF SubsTaken, MediaKnown, SubsFollowVoice
  <1>5. \/ b = [a EXCEPT !.status = "PENDING"]
        \/ b = a /\ (a.status = "READY" => a.source = voice.audio)
    BY <1>1 DEF SubsOf
  <1> QED
    BY <1>1, <1>2, <1>4, <1>5

LEMMA MediaTraced ==
    ASSUME JobsShape(jobs), SubsFollowVoice, NEW v, VideoShape(v), Traced(v)
    PROVE  Traced(Media(v))
  <1>1. PICK w : w = Media(v)
    OBVIOUS
  <1>2. /\ w.voice = VoiceOf(v) /\ w.subs = SubsOf(v, VoiceOf(v)) /\ w.render = v.render
        /\ w.score = v.score /\ \A k \in TextStages : w[k] = v[k]
    BY <1>1, MediaFields
  <1>3. MediaKnown(v)
    BY DEF Traced
  <1>4. MediaKnown(w)
    <2>1. PICK a, b : a = VoiceOf(v) /\ b = SubsOf(v, a)
      OBVIOUS
    <2>2. /\ a.job \in {None, Placeholder} \cup Made("voice")
          /\ a.status = "READY" => a.audio \in Made("voice") /\ a.hash = jobs[a.audio].from[2]
      BY <1>3, <2>1, VoiceTracedFrom
    <2>3. /\ b.job \in {None, Placeholder} \cup Made("subs")
          /\ b.status = "READY" => b.vtt \in Made("subs") /\ jobs[b.vtt].from = <<b.source>>
      BY <1>3, <2>1, SubsTracedFrom DEF SubsFollowVoice
    <2> QED
      BY <1>2, <1>3, <2>1, <2>2, <2>3 DEF MediaKnown
  <1> QED
    BY <1>1, <1>2, <1>4, TracedParts

LEMMA RenderedTraced ==
    ASSUME NEW v, VideoShape(v), Traced(v)
    PROVE  Traced(Rendered(v))
  <1>1. PICK w : w = Rendered(v)
    OBVIOUS
  <1>2. /\ w.render.status = RenderStatus(v) /\ w.render.job = v.render.job
        /\ w.render.claim = v.render.claim /\ w.voice = v.voice /\ w.subs = v.subs
        /\ w.score = v.score /\ \A k \in TextStages : w[k] = v[k]
    BY <1>1, RenderedFields, Names DEF VideoFields
  <1>3. MediaKnown(v)
    BY DEF Traced
  <1>4. w.render.status = "READY" => w.render.job \in DOMAIN jobs
    BY <1>2, <1>3 DEF RenderStatus, MediaKnown
  <1>5. MediaKnown(w)
    BY <1>2, <1>3, <1>4 DEF MediaKnown
  <1> QED
    BY <1>1, <1>2, <1>5, TracedParts

LEMMA ReconciledTraced ==
    ASSUME JobsShape(jobs), SubsFollowVoice, NEW v, VideoShape(v), Traced(v)
    PROVE  Traced(Reconciled(v)) /\ VideoShape(Reconciled(v))
  <1>1. PICK w : w = Media(v)
    OBVIOUS
  <1>2. VideoShape(w) /\ Traced(w)
    BY <1>1, MediaFields, MediaTraced
  <1>3. VideoShape(Rendered(w)) /\ Traced(Rendered(w))
    BY <1>2, RenderedFields, RenderedTraced
  <1> QED
    BY <1>1, <1>3 DEF Reconciled

\* A report about the render is none of what is traced.
LEMMA ReportTraced ==
    ASSUME NEW v, VideoShape(v), Traced(v), NEW w, \A f \in VideoFields \ {"qa", "scenes"} : w[f] = v[f]
    PROVE  Traced(w)
  <1>1. /\ w.render = v.render /\ w.voice = v.voice /\ w.subs = v.subs
        /\ w.score = v.score /\ \A k \in TextStages : w[k] = v[k]
    BY Names DEF VideoFields
  <1>2. MediaKnown(w)
    BY <1>1 DEF Traced, MediaKnown
  <1> QED
    BY <1>1, <1>2, TracedParts

LEMMA QaTraced ==
    ASSUME NEW v, VideoShape(v), Traced(v)
    PROVE  Traced(QaOf(v)) /\ VideoShape(QaOf(v))
  <1>1. PICK w : w = QaOf(v)
    OBVIOUS
  <1>2. VideoShape(w) /\ \A f \in VideoFields \ {"qa", "scenes"} : w[f] = v[f]
    BY <1>1, QaFields
  <1>3. Traced(w)
    BY <1>2, ReportTraced
  <1> QED
    BY <1>1, <1>2, <1>3

LEMMA FinalizedTraced ==
    ASSUME JobsShape(jobs), SubsFollowVoice, VideoShape(video), Traced(video)
    PROVE  Traced(Finalized) /\ VideoShape(Finalized)
  <1>1. PICK a : a = FinalTexts(video)
    OBVIOUS
  <1>2. PICK b : b = Reconciled(a)
    OBVIOUS
  <1>3. VideoShape(a) /\ Traced(a)
    BY <1>1, FinalTextsFields, FinalTextsTraced
  <1>4. VideoShape(b) /\ Traced(b)
    BY <1>2, <1>3, ReconciledTraced
  <1>5. VideoShape(QaOf(b)) /\ Traced(QaOf(b))
    BY <1>4, QaTraced
  <1> QED
    BY <1>1, <1>2, <1>5 DEF Finalized

-----------------------------------------------------------------------------
\* Jobs keep what they are and what they were made from.
JobsStay ==
    /\ DOMAIN jobs \subseteq DOMAIN jobs'
    /\ \A n \in DOMAIN jobs : jobs'[n].kind = jobs[n].kind /\ jobs'[n].from = jobs[n].from

LEMMA MediaCarried ==
    ASSUME JobsStay, NEW v, video' = v, MediaKnown(v)
    PROVE  MediaKnown(video)'
  <1>1. ASSUME NEW sort, NEW n \in Made(sort)
        PROVE  n \in Made(sort)' /\ jobs'[n].from = jobs[n].from
    BY <1>1 DEF JobsStay, Made
  <1>2. /\ v.voice.job \in {None, Placeholder} \cup Made("voice")'
        /\ v.subs.job \in {None, Placeholder} \cup Made("subs")'
    BY <1>1 DEF MediaKnown
  <1>3. v.voice.status = "READY" =>
           v.voice.audio \in Made("voice")' /\ v.voice.hash = jobs'[v.voice.audio].from[2]
    BY <1>1 DEF MediaKnown
  <1>4. v.subs.status = "READY" =>
           v.subs.vtt \in Made("subs")' /\ jobs'[v.subs.vtt].from = <<v.subs.source>>
    BY <1>1 DEF MediaKnown
  <1>5. v.render.status = "READY" => v.render.job \in DOMAIN jobs'
    BY DEF MediaKnown, JobsStay
  <1> QED
    BY <1>2, <1>3, <1>4, <1>5 DEF MediaKnown

LEMMA ChainCarried ==
    ASSUME JobsShape(jobs), JobsStay, NEW v, video' = v, ChainKnown(v),
           \A k \in {"script", "plan", "seo", "render"} : v[k].claim \in 0..Len(jobs)
    PROVE  ChainKnown(video)'
  <1>1. \A k \in {"script", "plan", "seo", "render"} :
            v[k].claim # 0 => jobs'[v[k].claim].from = jobs[v[k].claim].from
    BY JobNumbers DEF JobsStay
  <1>2. /\ v.script.claim # 0 => jobs'[v.script.claim].from = jobs[v.script.claim].from
        /\ v.render.claim # 0 => jobs'[v.render.claim].from = jobs[v.render.claim].from
    BY <1>1
  <1>3. \A k \in {"plan", "seo"} : v[k].claim # 0 => jobs'[v[k].claim].from = jobs[v[k].claim].from
    BY <1>1
  <1> QED
    BY <1>2, <1>3 DEF ChainKnown, Artifacts

LEMMA TextsCarried ==
    ASSUME JobsStay, NEW v, video' = v, TextsKnown(v),
           \A q \in Requests : Pending(q)' =>
               Pending(q) /\ req'[q].what = req[q].what /\ req'[q].serial = req[q].serial
    PROVE  TextsKnown(video)'
  <1> SUFFICES ASSUME NEW k \in TextStages
               PROVE  /\ TextKnown(video[k])'
                      /\ \A q \in Requests :
                            Pending(q)' /\ req'[q].what = k /\ req'[q].serial = v[k].claim =>
                                v[k].job = None /\ ~Passed(v[k])
    BY DEF TextsKnown, Passed
  <1>1. TextKnown(v[k])
    BY DEF TextsKnown
  <1>2. TextKnown(video[k])'
    BY <1>1 DEF TextKnown, Passed, JobsStay
  <1> QED
    BY <1>2 DEF TextsKnown

\* A step that takes no number and records no job: all that is left to show is
\* what it makes of the video.
LEMMA CurrentFrame ==
    ASSUME CurrentInv, RenderInv', DOMAIN jobs' = DOMAIN jobs,
           \A n \in DOMAIN jobs : jobs'[n].kind = jobs[n].kind /\ jobs'[n].from = jobs[n].from,
           \A q \in Requests : Pending(q)' =>
               Pending(q) /\ req'[q].what = req[q].what /\ req'[q].serial = req[q].serial,
           NEW v, video' = v, MediaKnown(v), ~belated' => TextsKnown(v) /\ ChainKnown(v),
           JobsAsked'
    PROVE  CurrentInv'
  <1>1. JobsStay
    BY DEF JobsStay
  <1>2. /\ JobsShape(jobs) /\ DOMAIN jobs = 1..Len(jobs) /\ Len(jobs) \in Nat
        /\ DOMAIN jobs' = 1..Len(jobs') /\ Len(jobs') \in Nat
    <2>1. JobsShape(jobs) /\ JobsShape(jobs')
      BY DEF CurrentInv, RenderInv, OwnedInv
    <2>2. jobs' \in Seq({jobs'[n] : n \in DOMAIN jobs'})
      BY <2>1 DEF JobsShape
    <2> DEFINE S == {jobs'[n] : n \in DOMAIN jobs'}
    <2> HIDE DEF S
    <2>3. DOMAIN jobs' = 1..Len(jobs') /\ Len(jobs') \in Nat
      BY <2>2 DEF S
    <2> QED
      BY <2>1, <2>3, JobNumbers
  <1>3. \A k \in {"script", "plan", "seo", "render"} : v[k].claim \in 0..Len(jobs)
    <2>1. \A k \in StageNames : v[k].claim \in 0..Len(jobs')
      BY DEF RenderInv, OwnedInv, ClaimsKnown
    <2>2. Len(jobs') = Len(jobs)
      BY <1>2
    <2> QED
      BY <2>1, <2>2, Names
  <1>4. MediaKnown(video)'
    BY <1>1, MediaCarried
  <1>5. ~belated' => TextsKnown(video)' /\ ChainKnown(video)'
    BY <1>1, <1>2, <1>3, TextsCarried, ChainCarried
  <1>6. SubsFollowVoice'
    BY DEF CurrentInv, SubsFollowVoice, Made
  <1> QED
    BY <1>4, <1>5, <1>6 DEF CurrentInv, Traced

LEMMA AskedStays ==
    ASSUME CurrentInv, DOMAIN jobs' = DOMAIN jobs,
           \A n \in DOMAIN jobs : jobs'[n].kind = jobs[n].kind,
           \A q \in Requests : Pending(q)' => Pending(q) /\ req'[q] = req[q]
    PROVE  JobsAsked'
  <1> SUFFICES ASSUME NEW q \in Requests, Pending(q)', req'[q].what \in StageNames
               PROVE  /\ jobs'[req'[q].serial].kind = req'[q].what
                      /\ req'[q].pc = "record" /\ req'[q].job # None =>
                             /\ jobs'[req'[q].job].kind = req'[q].what
                             /\ req'[q].what \in TextStages => req'[q].job = req'[q].serial
    BY DEF JobsAsked
  <1>1. /\ Pending(q) /\ req'[q] = req[q] /\ req[q].serial \in DOMAIN jobs
        /\ req[q].pc = "record" => req[q].job \in {None} \cup DOMAIN jobs
    BY DEF CurrentInv, RenderInv, OwnedInv, RequestsKnown
  <1> QED
    BY <1>1 DEF CurrentInv, JobsAsked

LEMMA QuietCurrent ==
    ASSUME CurrentInv, RenderInv', DOMAIN jobs' = DOMAIN jobs,
           \A n \in DOMAIN jobs : jobs'[n].kind = jobs[n].kind /\ jobs'[n].from = jobs[n].from,
           \A q \in Requests : Pending(q)' => Pending(q) /\ req'[q] = req[q],
           NEW v, video' = v, MediaKnown(v), ~belated' => TextsKnown(v) /\ ChainKnown(v)
    PROVE  CurrentInv'
  <1>1. JobsAsked'
    BY AskedStays
  <1>2. \A q \in Requests : Pending(q)' =>
            Pending(q) /\ req'[q].what = req[q].what /\ req'[q].serial = req[q].serial
    OBVIOUS
  <1> QED
    BY <1>1, <1>2, CurrentFrame

-----------------------------------------------------------------------------
\* The operations of one transaction.
LEMMA ApprovedTraced ==
    ASSUME NEW v, VideoShape(v), Traced(v), v.script.status = "READY",
           NEW w, w = [v EXCEPT !.script.status = "APPROVED"]
    PROVE  Traced(w)
  <1>1. DOMAIN v = VideoFields /\ DOMAIN v.script = {"status", "job", "artifact", "claim"}
    BY ShapeFields, Fields, Names DEF VideoShape
  <1>2. /\ \A f \in VideoFields : f # "script" => w[f] = v[f]
        /\ w.script.claim = v.script.claim /\ w.script.job = v.script.job
        /\ w.script.artifact = v.script.artifact /\ w.script.status = "APPROVED"
    BY <1>1 DEF VideoFields
  <1>3. /\ w.brief = v.brief /\ w.plan = v.plan /\ w.seo = v.seo /\ w.voice = v.voice /\ w.subs = v.subs
        /\ w.render = v.render /\ w.score = v.score
    BY <1>2 DEF VideoFields
  <1>4. MediaKnown(w)
    BY <1>3 DEF Traced, MediaKnown
  <1>5. ASSUME ~belated PROVE TextsKnown(w) /\ ChainKnown(w)
    <2>1. TextsKnown(v) /\ ChainKnown(v)
      BY <1>5 DEF Traced
    <2>2. TextKnown(w.script) /\ Passed(v.script) /\ Passed(w.script)
      BY <1>2, <2>1, Names DEF TextsKnown, TextKnown, Passed
    <2>3. TextsKnown(w)
      <3>1. ASSUME NEW k \in TextStages, k # "script"
            PROVE  w[k] = v[k]
        BY <1>3, <3>1, Names
      <3>2. ASSUME NEW k \in TextStages
            PROVE  /\ TextKnown(w[k]) /\ w[k].claim = v[k].claim /\ w[k].job = v[k].job
                   /\ Passed(w[k]) <=> Passed(v[k])
        <4>1. CASE k = "script"
          BY <1>2, <2>2, <4>1
        <4>2. CASE k # "script"
          BY <2>1, <3>1, <4>2 DEF TextsKnown
        <4> QED
          BY <4>1, <4>2
      <3> QED
        BY <2>1, <3>2 DEF TextsKnown
    <2>4. ChainKnown(w)
      <3>1. \A k \in {"plan", "seo"} : w[k] = v[k]
        BY <1>3
      <3> QED
        BY <1>2, <1>3, <2>1, <3>1 DEF ChainKnown, Artifacts
    <2> QED
      BY <2>3, <2>4
  <1> QED
    BY <1>4, <1>5 DEF Traced

LEMMA TransactionTraced ==
    ASSUME CurrentInv,
           \/ EnsureAiStagesFinalized \/ ApproveScript
           \/ \E s \in Scenes, u \in Uploads : AttachSceneAsset(s, u)
    PROVE  \E v : video' = v /\ Traced(v)
  <1>0. VideoShape(video) /\ JobsShape(jobs) /\ SubsFollowVoice /\ Traced(video)
    BY DEF CurrentInv, RenderInv, OwnedInv
  <1>1. PICK v : v = Finalized
    OBVIOUS
  <1>2. VideoShape(v) /\ Traced(v)
    BY <1>0, <1>1, FinalizedTraced
  <1>3. CASE EnsureAiStagesFinalized
    BY <1>1, <1>2, <1>3 DEF EnsureAiStagesFinalized, Mutation
  <1>4. CASE ApproveScript
    <2>1. PICK w : w = [v EXCEPT !.script.status = "APPROVED"]
      OBVIOUS
    <2>2. video' = w /\ v.script.status = "READY"
      BY <1>1, <1>4, <2>1 DEF ApproveScript, Mutation
    <2> QED
      BY <1>2, <2>1, <2>2, ApprovedTraced
  <1>5. ASSUME NEW s \in Scenes, NEW u \in Uploads, AttachSceneAsset(s, u)
        PROVE  \E w : video' = w /\ Traced(w)
    <2>1. PICK a, b : a = Media(video) /\ b = [NoScene EXCEPT !.group = u, !.asset = upload[u]]
      OBVIOUS
    <2>2. Traced(a) /\ VideoShape(a) /\ DOMAIN a = VideoFields
      BY <1>0, <2>1, MediaTraced, MediaFields, ShapeFields
    <2>3. PICK c : c = [a EXCEPT !.scenes[s] = b]
      OBVIOUS
    <2>4. s \in DOMAIN a.scenes /\ video' = Media(c)
      BY <1>5, <2>1, <2>3 DEF AttachSceneAsset, Mutation
    <2>5. DOMAIN b = DOMAIN NoScene
      BY <2>1 DEF NoScene
    <2>6. /\ DOMAIN c = VideoFields /\ \A f \in VideoFields : f # "scenes" => c[f] = a[f]
          /\ DOMAIN c.scenes = DOMAIN a.scenes
          /\ \A x \in DOMAIN c.scenes : c.scenes[x] = IF x = s THEN b ELSE a.scenes[x]
      BY <2>2, <2>3, <2>4 DEF VideoFields
    <2>7. VideoShape(c)
      BY <2>2, <2>5, <2>6, Names DEF VideoShape, VideoFields
    <2>8. Traced(c)
      BY <2>2, <2>6, ReportTraced
    <2> QED
      BY <1>0, <2>4, <2>7, <2>8, MediaTraced
  <1> QED
    BY <1>3, <1>4, <1>5

\* A score that is recorded without being belated is of what there is.
LEMMA ScoreTraced ==
    ASSUME CurrentInv, NEW r \in Requests, ScoreRecord(r)
    PROVE  \E v : video' = v /\ MediaKnown(v) /\ (~belated' => TextsKnown(v) /\ ChainKnown(v))
  <1>0. VideoShape(video) /\ Traced(video) /\ DOMAIN video = VideoFields
    BY ShapeFields DEF CurrentInv, RenderInv, OwnedInv
  <1>1. PICK x, w : /\ w = [video EXCEPT !.score = x] /\ video' = w
                    /\ ~belated' => ~belated /\ (x.passed => x.seen = Artifacts(video))
    BY DEF ScoreRecord
  <1>2. /\ w.brief = video.brief /\ w.script = video.script /\ w.plan = video.plan /\ w.seo = video.seo
        /\ w.voice = video.voice /\ w.subs = video.subs /\ w.render = video.render /\ w.score = x
    BY <1>0, <1>1 DEF VideoFields
  <1>3. MediaKnown(w)
    BY <1>0, <1>2 DEF Traced, MediaKnown
  <1>4. ASSUME ~belated' PROVE TextsKnown(w) /\ ChainKnown(w)
    <2>1. TextsKnown(video) /\ ChainKnown(video)
      BY <1>0, <1>1, <1>4 DEF Traced
    <2>2. \A k \in TextStages : w[k] = video[k]
      BY <1>2, Names
    <2>3. TextsKnown(w)
      BY <2>1, <2>2 DEF TextsKnown
    <2>4. \A k \in {"plan", "seo"} : w[k] = video[k]
      BY <1>2
    <2>5. w.score.passed => w.score.seen = Artifacts(w)
      BY <1>1, <1>2, <1>4 DEF Artifacts
    <2>6. w.score.passed /\ w.plan.claim # 0 => w.score.seen[1] # None
      <3>1. TextKnown(video.script) /\ (video.plan.claim # 0 => Passed(video.script))
        BY <2>1, Names DEF TextsKnown, ChainKnown, Passed
      <3>2. None \notin DOMAIN jobs
        BY JobNumbers DEF CurrentInv, RenderInv, OwnedInv
      <3> QED
        BY <1>2, <2>5, <3>1, <3>2 DEF TextKnown, Artifacts
    <2> QED
      BY <1>2, <2>1, <2>3, <2>4, <2>5, <2>6 DEF ChainKnown
  <1> QED
    BY <1>1, <1>3, <1>4

LEMMA ReviewTraced ==
    ASSUME CurrentInv, NEW r \in Requests, ReviewStep(r)
    PROVE  \E v : video' = v /\ MediaKnown(v) /\ (~belated' => TextsKnown(v) /\ ChainKnown(v))
  <1>0. VideoShape(video) /\ JobsShape(jobs) /\ SubsFollowVoice /\ Traced(video)
    BY DEF CurrentInv, RenderInv, OwnedInv
  <1>1. PICK v, u : v = Finalized /\ u = Reconciled(video)
    OBVIOUS
  <1>2. Traced(v)
    BY <1>0, <1>1, FinalizedTraced
  <1>3. VideoShape(u) /\ Traced(u) /\ DOMAIN u = VideoFields
    BY <1>0, <1>1, ReconciledTraced, ShapeFields
  <1>4. belated => belated'
    BY ReviewFollows DEF CurrentInv, RenderInv
  <1>5. ASSUME NEW w, video' = w, Traced(w)
        PROVE  \E x : video' = x /\ MediaKnown(x) /\ (~belated' => TextsKnown(x) /\ ChainKnown(x))
    BY <1>4, <1>5 DEF Traced
  <1>6. CASE QaGather(r)
    <2>1. PICK w : w = QaOf(u)
      OBVIOUS
    <2>2. video' = w /\ Traced(w)
      BY <1>1, <1>3, <1>6, <2>1, QaTraced DEF QaGather, Mutation
    <2> QED
      BY <1>5, <2>2
  <1>7. CASE QaRecord(r)
    <2>1. PICK x, w : w = [u EXCEPT !.qa = x] /\ video' = w
      BY <1>1, <1>7 DEF QaRecord, Mutation
    <2>2. \A f \in VideoFields \ {"qa", "scenes"} : w[f] = u[f]
      BY <1>3, <2>1 DEF VideoFields
    <2>3. Traced(w)
      BY <1>3, <2>2, ReportTraced
    <2> QED
      BY <1>5, <2>1, <2>3
  <1>8. CASE ScoreCheck(r) \/ AssertReadyForReview(r)
    <2>1. video' = v
      BY <1>1, <1>8 DEF ScoreCheck, AssertReadyForReview, Mutation
    <2> QED
      BY <1>2, <1>5, <2>1
  <1>9. CASE ScoreTexts(r) \/ Score(r) \/ SubmitForReview(r)
    <2>1. PICK w : w = video
      OBVIOUS
    <2>2. video' = w /\ Traced(w)
      BY <1>0, <1>9, <2>1 DEF ScoreTexts, Score, SubmitForReview
    <2> QED
      BY <1>5, <2>2
  <1>10. CASE ScoreRecord(r)
    BY <1>10, ScoreTraced
  <1> QED
    BY <1>6, <1>7, <1>8, <1>9, <1>10 DEF ReviewStep

-----------------------------------------------------------------------------
\* A job that is used again is of the kind that is asked for, and a text or a
\* render is made by the job with the number of the claim.
LEMMA SubmitJobCurrent ==
    ASSUME CurrentInv, RenderInv', NEW r \in Requests, SubmitJob(r)
    PROVE  CurrentInv'
  <1>0. JobsShape(jobs) /\ RequestsKnown /\ RendersKnown /\ JobsAsked /\ Traced(video)
    BY DEF CurrentInv, RenderInv, OwnedInv
  <1>1. PICK i, what, v : i = req[r].serial /\ what = req[r].what /\ v = video
    OBVIOUS
  <1>2. /\ i \in DOMAIN jobs /\ Pending(r) /\ UNCHANGED <<video, belated>>
    BY <1>0, <1>1 DEF SubmitJob, At, Pending, RequestsKnown
  <1>3. PICK n : /\ Submitted(r, n)
                 /\ n \in Reusable(i) \cup {None, i}
    BY <1>1 DEF SubmitJob
  <1>4. PICK call : call = [pc |-> "record", what |-> what, serial |-> i, job |-> n]
    OBVIOUS
  <1>5. /\ req'[r] = call /\ \A q \in Requests : q # r => req'[q] = req[q]
        /\ call.pc = "record" /\ call.what = what /\ call.serial = i /\ call.job = n
    BY <1>0, <1>1, <1>3, <1>4 DEF Submitted, RequestsKnown
  <1>6. /\ DOMAIN jobs' = DOMAIN jobs
        /\ \A m \in DOMAIN jobs : jobs'[m].kind = jobs[m].kind /\ jobs'[m].from = jobs[m].from
    <2>1. \A m \in DOMAIN jobs : DOMAIN jobs[m] = {"kind", "from", "status", "covers"}
      BY <1>0 DEF JobsShape
    <2>2. CASE jobs' = jobs
      BY <2>2
    <2>3. CASE \E x : jobs' = [jobs EXCEPT ![i].status = x]
      BY <1>2, <2>1, <2>3
    <2> QED
      BY <1>1, <2>2, <2>3 DEF SubmitJob
  <1>7. ASSUME what \in StageNames
        PROVE  /\ jobs[i].kind = what
               /\ n # None => n \in DOMAIN jobs /\ jobs[n].kind = what
               /\ n # None /\ what \in TextStages => n = i
    <2>1. jobs[i].kind = what
      BY <1>0, <1>1, <1>2, <1>7 DEF JobsAsked
    <2>2. n \in Reusable(i) => n \in DOMAIN jobs /\ jobs[n].kind = jobs[i].kind /\ IsMedia(n)
      BY DEF Reusable
    <2>3. what \in TextStages => n \notin Reusable(i)
      BY <2>1, <2>2, Names DEF IsMedia
    <2> QED
      BY <1>2, <1>3, <2>1, <2>2, <2>3
  <1>8. \A q \in Requests : Pending(q)' =>
            Pending(q) /\ req'[q].what = req[q].what /\ req'[q].serial = req[q].serial
    BY <1>1, <1>2, <1>5 DEF Pending
  <1>9. JobsAsked'
    <2> SUFFICES ASSUME NEW q \in Requests, Pending(q)', req'[q].what \in StageNames
                 PROVE  /\ jobs'[req'[q].serial].kind = req'[q].what
                        /\ req'[q].pc = "record" /\ req'[q].job # None =>
                               /\ jobs'[req'[q].job].kind = req'[q].what
                               /\ req'[q].what \in TextStages => req'[q].job = req'[q].serial
      BY DEF JobsAsked
    <2>1. CASE q = r
      BY <1>2, <1>5, <1>6, <1>7, <2>1
    <2>2. CASE q # r
      <3>1. /\ Pending(q) /\ req'[q] = req[q] /\ req[q].serial \in DOMAIN jobs
            /\ req[q].pc = "record" => req[q].job \in {None} \cup DOMAIN jobs
        BY <1>0, <1>5, <2>2 DEF Pending, RequestsKnown
      <3> QED
        BY <1>0, <1>6, <3>1 DEF JobsAsked
    <2> QED
      BY <2>1, <2>2
  <1>10. MediaKnown(v) /\ (~belated' => TextsKnown(v) /\ ChainKnown(v)) /\ video' = v
    BY <1>0, <1>1, <1>2 DEF Traced
  <1> QED
    BY <1>6, <1>8, <1>9, <1>10, CurrentFrame

\* What a record makes of a stage.
Came(old, b, what, n) ==
    /\ b.claim = old.claim
    /\ b.job = n \/ (n = None /\ what \in TextStages /\ b.job = old.job)
    /\ what \in TextStages => b.artifact = old.artifact /\ b.status \in {"FAILED", "GENERATING"}
    /\ what = "render" => b.status \in {"FAILED", "RUNNING"}
    /\ what = "voice" /\ b.status = "READY" =>
           old.status = "READY" /\ b.audio = old.audio /\ b.hash = old.hash
    /\ what = "subs" /\ b.status = "READY" =>
           old.status = "READY" /\ b.vtt = old.vtt /\ b.source = old.source

LEMMA RecordedFields ==
    ASSUME CurrentInv, NEW r \in Requests, RecordJob(r), NEW w, w = video'
    PROVE  /\ \A k \in StageNames : k # req[r].what => w[k] = video[k]
           /\ w.score = video.score
           /\ req[r].what \notin Scenes =>
                  Came(video[req[r].what], w[req[r].what], req[r].what, req[r].job)
  <1>0. VideoShape(video) /\ RequestsKnown /\ DOMAIN video = VideoFields
    BY ShapeFields DEF CurrentInv, RenderInv, OwnedInv
  <1>1. PICK what, n : what = req[r].what /\ n = req[r].job
    OBVIOUS
  <1>2. what \in StageNames \cup Scenes
    BY <1>0, <1>1 DEF RecordJob, At, Pending, RequestsKnown
  <1>3. CASE what \in Scenes
    <2>1. w = SceneRecorded(what, n) /\ what \notin StageNames
      BY <1>1, <1>3, VideoAssumption DEF RecordJob
    <2>2. \A f \in VideoFields : f # "scenes" => w[f] = video[f]
      BY <1>0, <2>1 DEF SceneRecorded, VideoFields
    <2>3. \A k \in StageNames : w[k] = video[k]
      BY <2>2, Names DEF VideoFields
    <2> QED
      BY <1>1, <1>3, <2>2, <2>3 DEF VideoFields
  <1>4. CASE what \notin Scenes
    <2>1. PICK old, b : old = video[what] /\ b = Recorded(old, what, n)
      OBVIOUS
    <2>2. w = [video EXCEPT ![what] = b]
      BY <1>1, <1>4, <2>1 DEF RecordJob
    <2>3. w[what] = b /\ \A f \in VideoFields : f # what => w[f] = video[f]
      BY <1>0, <1>2, <1>4, <2>2, Names DEF VideoFields
    <2>4. /\ what \in TextStages => DOMAIN old = DOMAIN NoText
          /\ what = "voice" => DOMAIN old = DOMAIN NoVoice
          /\ what = "subs" => DOMAIN old = DOMAIN NoSubs
          /\ what = "render" => DOMAIN old = DOMAIN NoRender
          /\ what \in TextStages \cup {"voice", "subs", "render"}
      BY <1>0, <1>2, <1>4, <2>1, Names DEF VideoShape
    <2>5. ASSUME n = None PROVE Came(old, b, what, n)
      <3>1. b = IF what \in TextStages THEN [old EXCEPT !.status = "FAILED"]
                ELSE [old EXCEPT !.status = "FAILED", !.job = None]
        BY <2>1, <2>5 DEF Recorded, WithoutJob
      <3>2. b.claim = old.claim /\ b.status = "FAILED" /\ b.job = IF what \in TextStages THEN old.job ELSE None
        BY <2>4, <3>1, Fields
      <3>3. what \in TextStages => b.artifact = old.artifact
        BY <2>4, <3>1, Fields
      <3> QED
        BY <2>5, <3>2, <3>3 DEF Came
    <2>6. ASSUME n # None PROVE Came(old, b, what, n)
      <3>1. b = [old EXCEPT !.job = n, !.status = IF what \in TextStages THEN "GENERATING"
                                                  ELSE IF what = "render" THEN "RUNNING" ELSE @]
        BY <2>1, <2>6 DEF Recorded
      <3>2. /\ b.claim = old.claim /\ b.job = n
            /\ what \in TextStages => b.status = "GENERATING" /\ b.artifact = old.artifact
            /\ what = "render" => b.status = "RUNNING"
            /\ what = "voice" => b.status = old.status /\ b.audio = old.audio /\ b.hash = old.hash
            /\ what = "subs" => b.status = old.status /\ b.vtt = old.vtt /\ b.source = old.source
        BY <2>4, <3>1, Fields, Names
      <3> QED
        BY <2>6, <3>2 DEF Came
    <2>7. Came(old, b, what, n)
      BY <2>5, <2>6
    <2>8. \A k \in StageNames : k # what => w[k] = video[k]
      BY <2>3, Names DEF VideoFields
    <2>9. w.score = video.score
      BY <2>3, <2>4, Names DEF VideoFields
    <2> QED
      BY <1>1, <2>1, <2>3, <2>7, <2>8, <2>9
  <1> QED
    BY <1>3, <1>4

\* A record that is not belated is of the last claim, which nothing came of yet.
LEMMA RecordJobCurrent ==
    ASSUME CurrentInv, RenderInv', NEW r \in Requests, RecordJob(r)
    PROVE  CurrentInv'
  <1>0. /\ JobsShape(jobs) /\ RequestsKnown /\ ClaimsKnown /\ RendersKnown /\ JobsAsked
        /\ Traced(video) /\ SubsFollowVoice
    BY DEF CurrentInv, RenderInv, OwnedInv
  <1>1. PICK what, n, c, w : what = req[r].what /\ n = req[r].job /\ c = req[r].serial /\ w = video'
    OBVIOUS
  <1>2. /\ Pending(r) /\ req[r].pc = "record" /\ what \in StageNames \cup Scenes
        /\ n \in {None} \cup DOMAIN jobs /\ UNCHANGED jobs
    BY <1>0, <1>1 DEF RecordJob, At, Pending, RequestsKnown
  <1>3. /\ \A k \in StageNames : k # what => w[k] = video[k]
        /\ w.score = video.score
        /\ what \notin Scenes => Came(video[what], w[what], what, n)
    BY <1>1, RecordedFields
  <1>4. what \in StageNames => what \notin Scenes
    BY VideoAssumption
  <1>5. /\ DOMAIN req' = Requests /\ req'[r] = Idle /\ \A q \in Requests : q # r => req'[q] = req[q]
        /\ Idle.pc = "idle"
    BY <1>0 DEF RecordJob, Done, RequestsKnown, Idle
  <1>6. \A q \in Requests : Pending(q)' => Pending(q) /\ req'[q] = req[q] /\ q # r
    BY <1>5 DEF Pending
  <1>7. JobsStay
    BY <1>2 DEF JobsStay
  <1>8. JobsAsked'
    BY <1>2, <1>6, AskedStays
  <1>9. what \in StageNames /\ n # None => n \in Made(what)
    BY <1>0, <1>1, <1>2 DEF JobsAsked, Made
  <1>10. MediaKnown(w)
    <2>1. MediaKnown(video)
      BY <1>0 DEF Traced
    <2>2. w.voice.job \in {None, Placeholder} \cup Made("voice")
      BY <1>3, <1>4, <1>9, <2>1, Names DEF MediaKnown, Came
    <2>3. w.voice.status = "READY" =>
              w.voice.audio \in Made("voice") /\ w.voice.hash = jobs[w.voice.audio].from[2]
      BY <1>3, <1>4, <2>1, Names DEF MediaKnown, Came
    <2>4. w.subs.job \in {None, Placeholder} \cup Made("subs")
      BY <1>3, <1>4, <1>9, <2>1, Names DEF MediaKnown, Came
    <2>5. w.subs.status = "READY" =>
              w.subs.vtt \in Made("subs") /\ jobs[w.subs.vtt].from = <<w.subs.source>>
      BY <1>3, <1>4, <2>1, Names DEF MediaKnown, Came
    <2>6. w.render.status = "READY" => w.render.job \in DOMAIN jobs
      BY <1>3, <1>4, <2>1, Names DEF MediaKnown, Came
    <2> QED
      BY <2>2, <2>3, <2>4, <2>5, <2>6 DEF MediaKnown
  <1>11. MediaKnown(video)'
    BY <1>1, <1>7, <1>10, MediaCarried
  <1>12. ASSUME ~belated' PROVE TextsKnown(video)' /\ ChainKnown(video)'
    <2>0. ~belated /\ ~Overtaken(r)
      BY <1>12 DEF RecordJob
    <2>1. TextsKnown(video) /\ ChainKnown(video)
      BY <1>0, <2>0 DEF Traced
    <2>2. what \in TextStages \cup {"render"} => video[what].claim = c
      BY <1>1, <2>0 DEF Overtaken
    <2>3. what \in TextStages =>
              /\ video[what].job = None /\ ~Passed(video[what]) /\ video[what].artifact = None
              /\ ~Passed(w[what]) /\ w[what].artifact = None /\ w[what].claim = c
              /\ n \in {None, c} /\ w[what].job = n
      <3> SUFFICES ASSUME what \in TextStages
                   PROVE  /\ video[what].job = None /\ ~Passed(video[what]) /\ video[what].artifact = None
                          /\ ~Passed(w[what]) /\ w[what].artifact = None /\ w[what].claim = c
                          /\ n \in {None, c} /\ w[what].job = n
        OBVIOUS
      <3>1. video[what].job = None /\ ~Passed(video[what])
        BY <1>1, <1>2, <2>1, <2>2 DEF TextsKnown
      <3>2. video[what].artifact = None
        BY <2>1, <3>1 DEF TextsKnown, TextKnown
      <3>3. what \in StageNames /\ Came(video[what], w[what], what, n)
        BY <1>3, <1>4, Names
      <3>4. ~Passed(w[what]) /\ w[what].artifact = None /\ w[what].claim = c /\ w[what].job = n
        BY <2>2, <3>1, <3>2, <3>3 DEF Came, Passed
      <3>5. n \in {None, c}
        BY <1>0, <1>1, <1>2, <3>3 DEF JobsAsked
      <3> QED
        BY <3>1, <3>2, <3>4, <3>5
    <2>4. \A k \in TextStages :
              /\ k # what => w[k] = video[k]
              /\ w[k].claim = video[k].claim /\ w[k].artifact = video[k].artifact
              /\ Passed(video[k]) => w[k] = video[k]
      BY <1>3, <2>2, <2>3, Names
    <2>5. TextsKnown(video)'
      <3> SUFFICES ASSUME NEW k \in TextStages
                   PROVE  /\ TextKnown(video[k])'
                          /\ \A q \in Requests :
                                Pending(q)' /\ req'[q].what = k /\ req'[q].serial = w[k].claim =>
                                    w[k].job = None /\ ~Passed(w[k])
        BY <1>1 DEF TextsKnown, Passed
      <3>1. CASE k = what
        <4>1. TextKnown(video[k])'
          BY <1>1, <2>3, <3>1 DEF TextKnown, Passed
        <4>2. ASSUME NEW q \in Requests, Pending(q)', req'[q].serial = w[k].claim
              PROVE  FALSE
          BY <1>0, <1>1, <1>2, <1>6, <2>3, <3>1, <4>2 DEF RequestsKnown
        <4> QED
          BY <4>1, <4>2
      <3>2. CASE k # what
        <4>1. w[k] = video[k] /\ TextKnown(video[k])
          BY <2>1, <2>4, <3>2 DEF TextsKnown
        <4>2. TextKnown(video[k])'
          BY <1>1, <1>2, <4>1 DEF TextKnown, Passed
        <4> QED
          BY <1>6, <2>1, <4>1, <4>2 DEF TextsKnown
      <3> QED
        BY <3>1, <3>2
    <2>6. /\ w.script.claim = video.script.claim /\ w.plan.claim = video.plan.claim
          /\ w.seo.claim = video.seo.claim /\ w.script.artifact = video.script.artifact
          /\ w.plan.artifact = video.plan.artifact /\ w.seo.artifact = video.seo.artifact
          /\ Passed(video.brief) => w.brief = video.brief
          /\ Passed(video.script) => w.script = video.script
          /\ Passed(video.plan) => w.plan = video.plan
      BY <2>4, Names
    <2>7. w.render.claim = video.render.claim /\ w.render.job \in {None, Placeholder, w.render.claim}
      <3>1. CASE what = "render"
        <4>1. Came(video.render, w.render, what, n) /\ what \notin TextStages
          BY <1>3, <1>4, <3>1, Names
        <4>2. n \in {None, c}
          BY <1>0, <1>1, <1>2, <3>1 DEF RendersKnown
        <4> QED
          BY <2>2, <3>1, <4>1, <4>2 DEF Came
      <3>2. CASE what # "render"
        BY <1>3, <2>1, <3>2, Names DEF ChainKnown
      <3> QED
        BY <3>1, <3>2
    <2>8. ChainKnown(w)
      <3>1. w.script.claim # 0 =>
                w.brief.status = "READY" /\ jobs[w.script.claim].from = <<w.brief.artifact>>
        BY <2>1, <2>6 DEF ChainKnown, Passed
      <3>2. \A k \in {"plan", "seo"} : w[k].claim # 0 =>
                w.script.status = "APPROVED" /\ jobs[w[k].claim].from = <<w.script.artifact>>
        BY <2>1, <2>6 DEF ChainKnown, Passed
      <3>3. w.render.claim # 0 =>
                w.plan.status = "READY" /\ jobs[w.render.claim].from[2] = w.plan.artifact
        BY <2>1, <2>6, <2>7 DEF ChainKnown, Passed
      <3>4. w.score.passed => /\ \A i \in 1..3 : w.score.seen[i] \in {None, Artifacts(w)[i]}
                              /\ w.plan.claim # 0 => w.score.seen[1] # None
        BY <1>3, <2>1, <2>6 DEF ChainKnown, Artifacts
      <3> QED
        BY <2>7, <3>1, <3>2, <3>3, <3>4 DEF ChainKnown
    <2>9. \A k \in {"script", "plan", "seo", "render"} : w[k].claim \in 0..Len(jobs)
      <3>1. \A k \in StageNames : w[k].claim \in 0..Len(jobs')
        BY <1>1 DEF RenderInv, OwnedInv, ClaimsKnown
      <3> QED
        BY <1>2, <3>1, Names
    <2>10. ChainKnown(video)'
      BY <1>0, <1>1, <1>7, <2>8, <2>9, ChainCarried
    <2> QED
      BY <2>5, <2>10
  <1>13. SubsFollowVoice'
    BY <1>0, <1>2 DEF SubsFollowVoice, Made
  <1> QED
    BY <1>8, <1>11, <1>12, <1>13 DEF CurrentInv, Traced

-----------------------------------------------------------------------------
\* The chain with the jobs there are after a step.
ChainOf(v, js) ==
    /\ v.script.claim # 0 =>
           v.brief.status = "READY" /\ js[v.script.claim].from = <<v.brief.artifact>>
    /\ \A k \in {"plan", "seo"} : v[k].claim # 0 =>
           v.script.status = "APPROVED" /\ js[v[k].claim].from = <<v.script.artifact>>
    /\ v.render.claim # 0 =>
           v.plan.status = "READY" /\ js[v.render.claim].from[2] = v.plan.artifact
    /\ v.render.job \in {None, Placeholder, v.render.claim}
    /\ v.score.passed =>
           /\ \A i \in 1..3 : v.score.seen[i] \in {None, Artifacts(v)[i]}
           /\ v.plan.claim # 0 => v.score.seen[1] # None

\* A claim takes a new number, and asks for a job of its stage.
ClaimTraced(r, what, sort, from, v, v0) ==
    /\ what \in StageNames \cup Scenes /\ Claim(r, what, sort, from, v)
    /\ what \in StageNames => sort = what
    /\ sort = "subs" => from = <<from[1]>>
    /\ Traced(v0) /\ MediaKnown(v)
    /\ \A k \in TextStages : v[k] \in IF k = what THEN {Generating} ELSE {v0[k], NoText}
    /\ ~belated => ChainOf(v, Append(jobs, Job(sort, from, "NONE", {})))

LEMMA ClaimCurrent ==
    ASSUME CurrentInv, RenderInv', NEW r \in Requests,
           NEW what, NEW sort, NEW from, NEW v, NEW v0, ClaimTraced(r, what, sort, from, v, v0)
    PROVE  CurrentInv'
  <1> USE DEF ClaimTraced
  <1>0. /\ JobsShape(jobs) /\ RequestsKnown /\ JobsAsked /\ SubsFollowVoice
    BY DEF CurrentInv, RenderInv, OwnedInv
  <1>1. PICK x, j : x = Job(sort, from, "NONE", {}) /\ j = Append(jobs, x)
    OBVIOUS
  <1>2. DOMAIN x = {"kind", "from", "status", "covers"} /\ x.kind = sort /\ x.from = from
    BY <1>1 DEF Job
  <1>3. /\ Len(jobs) \in Nat /\ DOMAIN jobs = 1..Len(jobs) /\ DOMAIN j = 1..Serial
        /\ \A n \in DOMAIN jobs : j[n] = jobs[n]
        /\ j[Serial] = x
    BY <1>0, <1>1, <1>2, Appended
  <1>4. jobs' = j /\ video' = v /\ belated' = belated
    BY <1>1 DEF Claim
  <1>5. JobsStay
    BY <1>3, <1>4 DEF JobsStay, Serial
  <1>6. PICK call : call = [pc |-> "submit", what |-> what, serial |-> Serial]
    OBVIOUS
  <1>7. /\ req'[r] = call /\ \A q \in Requests : q # r => req'[q] = req[q]
        /\ call.pc = "submit" /\ call.what = what /\ call.serial = Serial
    BY <1>0, <1>6 DEF Claim, Begin, RequestsKnown
  <1>8. \A q \in Requests : Pending(q)' /\ q # r => Pending(q) /\ req'[q] = req[q]
    BY <1>7 DEF Pending
  <1>9. MediaKnown(video)'
    BY <1>4, <1>5, MediaCarried
  <1>10. SubsFollowVoice'
    <2> SUFFICES ASSUME NEW n \in DOMAIN j, j[n].kind = "subs" PROVE j[n].from = <<j[n].from[1]>>
      BY <1>4 DEF SubsFollowVoice, Made
    <2>1. CASE n = Serial
      BY <1>2, <1>3, <2>1
    <2>2. CASE n # Serial
      <3>1. n \in DOMAIN jobs
        BY <1>3, <2>2 DEF Serial
      <3> QED
        BY <1>0, <1>3, <3>1 DEF SubsFollowVoice, Made
    <2> QED
      BY <2>1, <2>2
  <1>11. JobsAsked'
    <2> SUFFICES ASSUME NEW q \in Requests, Pending(q)', req'[q].what \in StageNames
                 PROVE  /\ j[req'[q].serial].kind = req'[q].what
                        /\ req'[q].pc = "record" /\ req'[q].job # None =>
                               /\ j[req'[q].job].kind = req'[q].what
                               /\ req'[q].what \in TextStages => req'[q].job = req'[q].serial
      BY <1>4 DEF JobsAsked
    <2>1. CASE q = r
      BY <1>2, <1>3, <1>7, <2>1
    <2>2. CASE q # r
      <3>1. /\ Pending(q) /\ req'[q] = req[q] /\ req[q].serial \in DOMAIN jobs
            /\ req[q].pc = "record" => req[q].job \in {None} \cup DOMAIN jobs
        BY <1>0, <1>8, <2>2 DEF RequestsKnown
      <3> QED
        BY <1>0, <1>3, <3>1 DEF JobsAsked
    <2> QED
      BY <2>1, <2>2
  <1>12. ASSUME ~belated PROVE TextsKnown(video)'
    <2>1. TextsKnown(v0)
      BY <1>12 DEF Traced
    <2>2. /\ NoText.job = None /\ NoText.artifact = None /\ ~Passed(NoText)
          /\ Generating.job = None /\ Generating.artifact = None /\ ~Passed(Generating)
      BY DEF NoText, Generating, Passed
    <2> SUFFICES ASSUME NEW k \in TextStages
                 PROVE  /\ TextKnown(video[k])'
                        /\ \A q \in Requests :
                              Pending(q)' /\ req'[q].what = k /\ req'[q].serial = v[k].claim =>
                                  v[k].job = None /\ ~Passed(v[k])
      BY <1>4 DEF TextsKnown, Passed
    <2>3. CASE v[k].job = None /\ v[k].artifact = None /\ ~Passed(v[k])
      BY <1>4, <2>3 DEF TextKnown, Passed
    <2>4. CASE v[k] = v0[k] /\ k # what
      <3>1. TextKnown(v0[k])
        BY <2>1 DEF TextsKnown
      <3>2. TextKnown(video[k])'
        BY <1>4, <1>5, <2>4, <3>1 DEF TextKnown, Passed, JobsStay
      <3>3. \A q \in Requests : Pending(q)' /\ req'[q].what = k => q # r
        BY <1>7, <2>4
      <3> QED
        BY <1>8, <2>1, <2>4, <3>2, <3>3 DEF TextsKnown
    <2> QED
      BY <2>2, <2>3, <2>4
  <1>13. ~belated => ChainKnown(video)'
    BY <1>1, <1>4 DEF ChainOf, ChainKnown, Artifacts
  <1> QED
    BY <1>4, <1>9, <1>10, <1>11, <1>12, <1>13 DEF CurrentInv, Traced

LEMMA ChainStays ==
    ASSUME CurrentInv, NEW v0, Follows(video, v0), ChainKnown(v0),
           NEW j, \A n \in DOMAIN jobs : j[n] = jobs[n]
    PROVE  ChainOf(v0, j)
  <1>1. JobsShape(jobs) /\ \A k \in StageNames : video[k].claim \in 0..Len(jobs)
    BY DEF CurrentInv, RenderInv, OwnedInv, ClaimsKnown
  <1>2. \A k \in StageNames : v0[k].claim \in {0, video[k].claim}
    BY DEF Follows, StageFrom
  <1>3. DOMAIN jobs = 1..Len(jobs) /\ Len(jobs) \in Nat
    BY <1>1, JobNumbers
  <1>4. \A k \in {"script", "plan", "seo", "render"} :
            v0[k].claim # 0 => j[v0[k].claim] = jobs[v0[k].claim]
    BY <1>1, <1>2, <1>3, Names
  <1>5. /\ v0.script.claim # 0 => j[v0.script.claim] = jobs[v0.script.claim]
        /\ v0.render.claim # 0 => j[v0.render.claim] = jobs[v0.render.claim]
    BY <1>4
  <1>6. \A k \in {"plan", "seo"} : v0[k].claim # 0 => j[v0[k].claim] = jobs[v0[k].claim]
    BY <1>4
  <1> QED
    BY <1>5, <1>6 DEF ChainKnown, ChainOf

LEMMA RenderResetFields ==
    ASSUME NEW v, VideoShape(v)
    PROVE  /\ VideoShape(RenderReset(v)) /\ DOMAIN RenderReset(v) = VideoFields
           /\ RenderReset(v).render = NoRender /\ RenderReset(v).score = NoScore
           /\ \A f \in TextStages \cup {"voice", "subs", "scenes"} : RenderReset(v)[f] = v[f]
  <1>1. PICK w : w = RenderReset(v)
    OBVIOUS
  <1>2. DOMAIN v = VideoFields
    BY ShapeFields
  <1>3. /\ DOMAIN w = VideoFields /\ w.render = NoRender /\ w.score = NoScore
        /\ \A f \in VideoFields \ {"render", "qa", "score"} : w[f] = v[f]
    BY <1>1, <1>2 DEF RenderReset, VideoFields
  <1>4. VideoShape(w)
    BY <1>1, RenderResetFrom DEF Follows
  <1> QED
    BY <1>1, <1>3, <1>4, Names DEF VideoFields

LEMMA ScriptResetFields ==
    ASSUME NEW v, VideoShape(v)
    PROVE  /\ DOMAIN ScriptReset(v) = VideoFields
           /\ ScriptReset(v).plan = NoText /\ ScriptReset(v).seo = NoText
           /\ ScriptReset(v).voice = NoVoice /\ ScriptReset(v).subs = NoSubs
           /\ ScriptReset(v).render = NoRender /\ ScriptReset(v).score = NoScore
           /\ ScriptReset(v).brief = v.brief /\ ScriptReset(v).script = v.script
  <1>1. PICK u, w : u = RenderReset(v) /\ w = ScriptReset(v)
    OBVIOUS
  <1>2. /\ DOMAIN u = VideoFields /\ u.render = NoRender /\ u.score = NoScore
        /\ u.brief = v.brief /\ u.script = v.script
    BY <1>1, RenderResetFields, Names
  <1>3. w = [u EXCEPT !.plan = NoText, !.seo = NoText, !.scenes = NoScenes, !.voice = NoVoice, !.subs = NoSubs]
    BY <1>1 DEF ScriptReset
  <1>4. /\ DOMAIN w = VideoFields /\ w.plan = NoText /\ w.seo = NoText
        /\ w.voice = NoVoice /\ w.subs = NoSubs /\ w.render = u.render /\ w.score = u.score
        /\ w.brief = u.brief /\ w.script = u.script
    BY <1>2, <1>3 DEF VideoFields
  <1> QED
    BY <1>1, <1>2, <1>4

\* Stages that started again say nothing.
LEMMA NothingKnown ==
    /\ NoText.claim = 0 /\ NoRender.claim = 0 /\ NoRender.job = None /\ NoRender.status # "READY"
    /\ ~NoScore.passed /\ Generating.claim = Serial
    /\ NoVoice.job = None /\ NoVoice.status # "READY" /\ NoSubs.job = None /\ NoSubs.status # "READY"
  BY Fields DEF NoText, NoRender, NoScore, NoVoice, NoSubs, Generating

LEMMA ClaimStageCurrent ==
    ASSUME CurrentInv, RenderInv', NEW r \in Requests, NEW k \in TextStages, ClaimStage(r, k)
    PROVE  CurrentInv'
  <1>0. VideoShape(video) /\ JobsShape(jobs) /\ SubsFollowVoice /\ Traced(video)
    BY DEF CurrentInv, RenderInv, OwnedInv
  <1>1. PICK v : v = Finalized
    OBVIOUS
  <1>2. /\ VideoShape(v) /\ Traced(v) /\ Follows(video, v) /\ DOMAIN v = VideoFields
    BY <1>0, <1>1, FinalizedTraced, FinalizedFrom, ShapeFields
  <1>3. MediaKnown(v) /\ (~belated => ChainKnown(v))
    BY <1>2 DEF Traced
  <1>4. PICK x, y : x = ScriptReset(v) /\ y = RenderReset(v)
    OBVIOUS
  <1>5. /\ DOMAIN x = VideoFields /\ x.brief = v.brief /\ x.script = v.script
        /\ x.plan = NoText /\ x.seo = NoText /\ x.voice = NoVoice /\ x.subs = NoSubs
        /\ x.render = NoRender /\ x.score = NoScore
    BY <1>2, <1>4, ScriptResetFields
  <1>6. /\ DOMAIN y = VideoFields /\ y.brief = v.brief /\ y.script = v.script
        /\ y.plan = v.plan /\ y.seo = v.seo /\ y.voice = v.voice /\ y.subs = v.subs
        /\ y.render = NoRender /\ y.score = NoScore
    BY <1>2, <1>4, RenderResetFields, Names
  <1>7. k \in StageNames \cup Scenes /\ k # "subs"
    BY Names
  <1>8. ASSUME NEW from, NEW w, Claim(r, k, k, from, w), MediaKnown(w),
               \A i \in TextStages : w[i] \in IF i = k THEN {Generating} ELSE {v[i], NoText},
               \A j : /\ \A n \in DOMAIN jobs : j[n] = jobs[n]
                      /\ j[Serial].from = from /\ ~belated
                      => ChainOf(w, j)
        PROVE  CurrentInv'
    <2>1. PICK z, j : z = Job(k, from, "NONE", {}) /\ j = Append(jobs, z)
      OBVIOUS
    <2>2. DOMAIN z = {"kind", "from", "status", "covers"} /\ z.from = from
      BY <2>1 DEF Job
    <2>3. (\A n \in DOMAIN jobs : j[n] = jobs[n]) /\ j[Serial] = z
      BY <1>0, <2>1, <2>2, Appended
    <2>4. ~belated => ChainOf(w, Append(jobs, Job(k, from, "NONE", {})))
      BY <1>8, <2>1, <2>2, <2>3
    <2>5. ClaimTraced(r, k, k, from, w, v)
      BY <1>2, <1>7, <1>8, <2>4 DEF ClaimTraced
    <2> QED
      BY <2>5, ClaimCurrent
  <1>9. CASE k = "brief"
    <2>1. PICK w : w = [x EXCEPT !.brief = Generating, !.script = NoText]
      OBVIOUS
    <2>2. Claim(r, k, k, <<>>, w)
      BY <1>1, <1>4, <1>9, <2>1 DEF ClaimStage
    <2>3. /\ w.brief = Generating /\ w.script = NoText /\ w.plan = NoText /\ w.seo = NoText
          /\ w.voice = NoVoice /\ w.subs = NoSubs /\ w.render = NoRender /\ w.score = NoScore
      BY <1>5, <2>1 DEF VideoFields
    <2>4. MediaKnown(w)
      BY <2>3, NothingKnown DEF MediaKnown
    <2>5. \A i \in TextStages : w[i] \in IF i = k THEN {Generating} ELSE {v[i], NoText}
      BY <1>9, <2>3, Names
    <2>6. \A j : ChainOf(w, j)
      BY <2>3, NothingKnown DEF ChainOf
    <2> QED
      BY <1>8, <2>2, <2>4, <2>5, <2>6
  <1>10. CASE k = "script"
    <2>1. PICK w : w = [x EXCEPT !.script = Generating]
      OBVIOUS
    <2>2. Claim(r, k, k, <<v.brief.artifact>>, w) /\ v.brief.status = "READY"
      BY <1>1, <1>4, <1>10, <2>1 DEF ClaimStage
    <2>3. /\ w.brief = v.brief /\ w.script = Generating /\ w.plan = NoText /\ w.seo = NoText
          /\ w.voice = NoVoice /\ w.subs = NoSubs /\ w.render = NoRender /\ w.score = NoScore
      BY <1>5, <2>1 DEF VideoFields
    <2>4. MediaKnown(w)
      BY <2>3, NothingKnown DEF MediaKnown
    <2>5. \A i \in TextStages : w[i] \in IF i = k THEN {Generating} ELSE {v[i], NoText}
      BY <1>10, <2>3, Names
    <2>6. \A j : j[Serial].from = <<v.brief.artifact>> => ChainOf(w, j)
      BY <2>2, <2>3, NothingKnown DEF ChainOf
    <2> QED
      BY <1>8, <2>2, <2>4, <2>5, <2>6
  <1>11. CASE k = "plan"
    <2>1. PICK w : w = [y EXCEPT !.plan = Generating]
      OBVIOUS
    <2>2. Claim(r, k, k, <<v.script.artifact>>, w) /\ v.script.status = "APPROVED"
      BY <1>1, <1>4, <1>11, <2>1 DEF ClaimStage
    <2>3. /\ w.brief = v.brief /\ w.script = v.script /\ w.plan = Generating /\ w.seo = v.seo
          /\ w.voice = v.voice /\ w.subs = v.subs /\ w.render = NoRender /\ w.score = NoScore
      BY <1>6, <2>1 DEF VideoFields
    <2>4. MediaKnown(w)
      BY <1>3, <2>3, NothingKnown DEF MediaKnown
    <2>5. \A i \in TextStages : w[i] \in IF i = k THEN {Generating} ELSE {v[i], NoText}
      BY <1>11, <2>3, Names
    <2>6. ASSUME NEW j, \A n \in DOMAIN jobs : j[n] = jobs[n],
                 j[Serial].from = <<v.script.artifact>>, ~belated
          PROVE  ChainOf(w, j)
      <3>1. ChainOf(v, j)
        BY <1>2, <1>3, <2>6, ChainStays
      <3>2. \A i \in {"plan", "seo"} : w[i].claim # 0 =>
                w.script.status = "APPROVED" /\ j[w[i].claim].from = <<w.script.artifact>>
        BY <2>2, <2>3, <2>6, <3>1, NothingKnown DEF ChainOf
      <3> QED
        BY <2>3, <3>1, <3>2, NothingKnown DEF ChainOf
    <2> QED
      BY <1>8, <2>2, <2>4, <2>5, <2>6
  <1>12. CASE k = "seo"
    <2>1. PICK w : w = [v EXCEPT !.seo = Generating, !.score = NoScore]
      OBVIOUS
    <2>2. Claim(r, k, k, <<v.script.artifact>>, w) /\ v.script.status = "APPROVED"
      BY <1>1, <1>12, <2>1 DEF ClaimStage
    <2>3. /\ w.brief = v.brief /\ w.script = v.script /\ w.plan = v.plan /\ w.seo = Generating
          /\ w.voice = v.voice /\ w.subs = v.subs /\ w.render = v.render /\ w.score = NoScore
      BY <1>2, <2>1 DEF VideoFields
    <2>4. MediaKnown(w)
      BY <1>3, <2>3 DEF MediaKnown
    <2>5. \A i \in TextStages : w[i] \in IF i = k THEN {Generating} ELSE {v[i], NoText}
      BY <1>12, <2>3, Names
    <2>6. ASSUME NEW j, \A n \in DOMAIN jobs : j[n] = jobs[n],
                 j[Serial].from = <<v.script.artifact>>, ~belated
          PROVE  ChainOf(w, j)
      <3>1. ChainOf(v, j)
        BY <1>2, <1>3, <2>6, ChainStays
      <3>2. \A i \in {"plan", "seo"} : w[i].claim # 0 =>
                w.script.status = "APPROVED" /\ j[w[i].claim].from = <<w.script.artifact>>
        BY <2>2, <2>3, <2>6, <3>1, NothingKnown DEF ChainOf
      <3> QED
        BY <2>3, <3>1, <3>2, NothingKnown DEF ChainOf
    <2> QED
      BY <1>8, <2>2, <2>4, <2>5, <2>6
  <1> QED
    BY <1>9, <1>10, <1>11, <1>12, Names

\* A claim of a media stage or of the render leaves the texts.
LEMMA LaterClaimCurrent ==
    ASSUME CurrentInv, RenderInv', NEW r \in Requests, NEW what \in (StageNames \cup Scenes) \ TextStages,
           NEW sort, NEW from, NEW w, Claim(r, what, sort, from, w),
           what \in StageNames => sort = what, sort = "subs" => from = <<from[1]>>,
           NEW v, Traced(v), Follows(video, v), MediaKnown(w),
           \A k \in TextStages : w[k] = v[k], w.score = v.score,
           \/ w.render = v.render
           \/ /\ w.render.claim = Serial /\ w.render.job = Placeholder
              /\ v.plan.status = "READY" /\ from[2] = v.plan.artifact
    PROVE  CurrentInv'
  <1>0. JobsShape(jobs)
    BY DEF CurrentInv, RenderInv, OwnedInv
  <1>1. PICK z, j : z = Job(sort, from, "NONE", {}) /\ j = Append(jobs, z)
    OBVIOUS
  <1>2. DOMAIN z = {"kind", "from", "status", "covers"} /\ z.from = from
    BY <1>1 DEF Job
  <1>3. (\A n \in DOMAIN jobs : j[n] = jobs[n]) /\ j[Serial] = z
    BY <1>0, <1>1, <1>2, Appended
  <1>4. ASSUME ~belated PROVE ChainOf(w, j)
    <2>1. ChainOf(v, j)
      BY <1>3, <1>4, ChainStays DEF Traced
    <2>2. w.brief = v.brief /\ w.script = v.script /\ w.plan = v.plan /\ w.seo = v.seo
      BY Names
    <2>3. \A k \in {"plan", "seo"} : w[k] = v[k]
      BY <2>2
    <2> QED
      BY <1>2, <1>3, <2>1, <2>2, <2>3 DEF ChainOf, Artifacts
  <1>5. ~belated => ChainOf(w, Append(jobs, Job(sort, from, "NONE", {})))
    BY <1>1, <1>4
  <1>6. \A k \in TextStages : w[k] \in IF k = what THEN {Generating} ELSE {v[k], NoText}
    OBVIOUS
  <1>7. ClaimTraced(r, what, sort, from, w, v)
    BY <1>5, <1>6 DEF ClaimTraced
  <1> QED
    BY <1>7, ClaimCurrent

LEMMA MediaClaimCurrent ==
    ASSUME CurrentInv, RenderInv', NEW r \in Requests,
           \/ \E s \in Scenes : GenerateSceneImage(r, s)
           \/ \E p \in Profiles : GenerateVoice(r, p)
           \/ GenerateSubtitles(r)
    PROVE  CurrentInv'
  <1>0. VideoShape(video) /\ JobsShape(jobs) /\ SubsFollowVoice /\ Traced(video)
    BY DEF CurrentInv, RenderInv, OwnedInv
  <1>1. PICK v : v = Media(video)
    OBVIOUS
  <1>2. VideoShape(v) /\ Traced(v) /\ Follows(video, v) /\ DOMAIN v = VideoFields /\ MediaKnown(v)
    BY <1>0, <1>1, MediaTraced, MediaFrom, ShapeFields DEF Follows, Traced
  <1>3. TextStages \subseteq VideoFields \ {"scenes", "voice", "subs", "render", "score"}
    BY Names DEF VideoFields
  <1>4. ASSUME NEW s \in Scenes, GenerateSceneImage(r, s)
        PROVE  CurrentInv'
    <2>1. PICK w : w = [v EXCEPT !.scenes[s].job = Placeholder, !.scenes[s].claim = Serial]
      OBVIOUS
    <2>2. Claim(r, s, "image", <<s, v.plan.artifact>>, w)
      BY <1>1, <1>4, <2>1 DEF GenerateSceneImage
    <2>3. \A f \in VideoFields : f # "scenes" => w[f] = v[f]
      BY <1>2, <2>1 DEF VideoFields
    <2>4. w.voice = v.voice /\ w.subs = v.subs /\ w.render = v.render /\ w.score = v.score
      BY <2>3 DEF VideoFields
    <2>5. \A k \in TextStages : w[k] = v[k]
      BY <1>3, <2>3
    <2>6. MediaKnown(w)
      BY <1>2, <2>4 DEF MediaKnown
    <2>7. s \in (StageNames \cup Scenes) \ TextStages /\ s \notin StageNames
      BY Names, VideoAssumption
    <2> QED
      BY <1>2, <2>2, <2>4, <2>5, <2>6, <2>7, LaterClaimCurrent
  <1>5. ASSUME NEW p \in Profiles, GenerateVoice(r, p)
        PROVE  CurrentInv'
    <2>0. PICK a, b : /\ a = [NoVoice EXCEPT !.status = "RUNNING", !.claim = Serial, !.job = Placeholder]
                      /\ b = IF v.subs.status = "PENDING" THEN v.subs ELSE NoSubs
      OBVIOUS
    <2>1. PICK w : w = [v EXCEPT !.voice = a, !.subs = b]
      OBVIOUS
    <2>2. Claim(r, "voice", "voice", <<p, v.script.artifact>>, w)
      BY <1>1, <1>2, <1>5, <2>0, <2>1 DEF GenerateVoice, VideoFields
    <2>3. w.voice = a /\ w.subs = b /\ \A f \in VideoFields : f \notin {"voice", "subs"} => w[f] = v[f]
      BY <1>2, <2>1 DEF VideoFields
    <2>4. w.render = v.render /\ w.score = v.score
      BY <2>3 DEF VideoFields
    <2>5. a.job = Placeholder /\ a.status = "RUNNING"
      BY <2>0, Fields
    <2>6. b.job \in {None, Placeholder} \cup Made("subs") /\ b.status # "READY"
      BY <1>2, <2>0, NothingKnown DEF MediaKnown
    <2>7. MediaKnown(w) /\ \A k \in TextStages : w[k] = v[k]
      BY <1>2, <1>3, <2>3, <2>4, <2>5, <2>6 DEF MediaKnown
    <2>8. "voice" \in (StageNames \cup Scenes) \ TextStages
      BY Names
    <2> QED
      BY <1>2, <2>2, <2>4, <2>7, <2>8, LaterClaimCurrent
  <1>6. ASSUME GenerateSubtitles(r)
        PROVE  CurrentInv'
    <2>0. PICK b : b = [v.subs EXCEPT !.status = "RUNNING", !.claim = Serial, !.job = Placeholder, !.vtt = None]
      OBVIOUS
    <2>1. PICK w, from : w = [v EXCEPT !.subs = b] /\ from = <<v.voice.audio>>
      OBVIOUS
    <2>2. Claim(r, "subs", "subs", from, w)
      BY <1>1, <1>2, <1>6, <2>0, <2>1 DEF GenerateSubtitles, VideoFields
    <2>3. w.subs = b /\ \A f \in VideoFields : f # "subs" => w[f] = v[f]
      BY <1>2, <2>1 DEF VideoFields
    <2>4. w.render = v.render /\ w.score = v.score /\ w.voice = v.voice
      BY <2>3 DEF VideoFields
    <2>5. b.job = Placeholder /\ b.status = "RUNNING"
      BY <1>2, <2>0, Fields DEF VideoShape
    <2>6. MediaKnown(w) /\ \A k \in TextStages : w[k] = v[k]
      BY <1>2, <1>3, <2>3, <2>4, <2>5 DEF MediaKnown
    <2>7. "subs" \in (StageNames \cup Scenes) \ TextStages /\ from = <<from[1]>>
      BY <2>1, Names
    <2> QED
      BY <1>2, <2>2, <2>4, <2>6, <2>7, LaterClaimCurrent
  <1> QED
    BY <1>4, <1>5, <1>6

LEMMA SubmitRenderCurrent ==
    ASSUME CurrentInv, RenderInv', NEW r \in Requests, SubmitRender(r)
    PROVE  CurrentInv'
  <1>0. VideoShape(video) /\ JobsShape(jobs) /\ SubsFollowVoice /\ Traced(video)
    BY DEF CurrentInv, RenderInv, OwnedInv
  <1>1. PICK v : v = Reconciled(video)
    OBVIOUS
  <1>2. VideoShape(v) /\ Traced(v) /\ Follows(video, v) /\ DOMAIN v = VideoFields /\ MediaKnown(v)
    BY <1>0, <1>1, ReconciledTraced, ReconciledFrom, ShapeFields DEF Traced, Follows
  <1>3. PICK a, from, w : /\ a = [status |-> "RUNNING", job |-> Placeholder, claim |-> Serial]
                          /\ from = <<Frozen(v), v.plan.artifact, Upstream(v)>>
                          /\ w = [v EXCEPT !.render = a, !.qa = NoQa]
    OBVIOUS
  <1>4. Claim(r, "render", "render", from, w) /\ v.plan.status = "READY" /\ from[2] = v.plan.artifact
    BY <1>1, <1>3 DEF SubmitRender
  <1>5. w.render = a /\ \A f \in VideoFields \ {"render", "qa"} : w[f] = v[f]
    BY <1>2, <1>3 DEF VideoFields
  <1>6. w.voice = v.voice /\ w.subs = v.subs /\ w.score = v.score
    BY <1>5 DEF VideoFields
  <1>7. \A k \in TextStages : w[k] = v[k]
    BY <1>5, Names DEF VideoFields
  <1>8. a.status = "RUNNING" /\ a.job = Placeholder /\ a.claim = Serial
    BY <1>3
  <1>9. MediaKnown(w)
    BY <1>2, <1>5, <1>6, <1>8 DEF MediaKnown
  <1>10. "render" \in (StageNames \cup Scenes) \ TextStages
    BY Names
  <1> QED
    BY <1>2, <1>4, <1>5, <1>6, <1>7, <1>8, <1>9, <1>10, LaterClaimCurrent

-----------------------------------------------------------------------------
\* What a produced video was made of.
LEMMA ProducedFrom ==
    ASSUME NEW s, NEW u, NEW p, NEW j, j = ProducedJobs(s, u, p)
    PROVE  /\ j[2].from = <<1>> /\ j[3].from = <<2>> /\ j[4].from = <<2>> /\ j[7].from[2] = 3
           /\ j[5].kind = "voice" /\ j[5].from[2] = 2 /\ j[6].kind = "subs" /\ j[6].from = <<5>>
           /\ \A n \in 1..7 : j[n].kind = "subs" => n = 6
  <1>1. \A sort, from, covers : /\ Job(sort, from, "COMPLETED", covers).kind = sort
                                /\ Job(sort, from, "COMPLETED", covers).from = from
    BY DEF Job
  <1>2. PICK x, y : x = Frozen(Produced(s, u)) /\ y = Upstream(Produced(s, u))
    OBVIOUS
  <1>3. PICK a, b, c, d, e, f, g :
          /\ a = Job("brief", <<>>, "COMPLETED", {}) /\ b = Job("script", <<1>>, "COMPLETED", {})
          /\ c = Job("plan", <<2>>, "COMPLETED", {s}) /\ d = Job("seo", <<2>>, "COMPLETED", {})
          /\ e = Job("voice", <<p, 2>>, "COMPLETED", {}) /\ f = Job("subs", <<5>>, "COMPLETED", {})
          /\ g = Job("render", <<x, 3, y>>, "COMPLETED", {})
    OBVIOUS
  <1>4. /\ a.kind = "brief" /\ b.kind = "script" /\ c.kind = "plan" /\ d.kind = "seo"
        /\ e.kind = "voice" /\ f.kind = "subs" /\ g.kind = "render"
        /\ b.from = <<1>> /\ c.from = <<2>> /\ d.from = <<2>> /\ e.from = <<p, 2>> /\ f.from = <<5>>
        /\ g.from = <<x, 3, y>>
    BY <1>1, <1>3
  <1>5. j = <<a, b, c, d, e, f, g>>
    BY <1>2, <1>3 DEF ProducedJobs
  <1>6. /\ j[1] = a /\ j[2] = b /\ j[3] = c /\ j[4] = d /\ j[5] = e /\ j[6] = f /\ j[7] = g
    BY <1>5
  <1>7. \A n \in 1..7 : n = 1 \/ n = 2 \/ n = 3 \/ n = 4 \/ n = 5 \/ n = 6 \/ n = 7
    OBVIOUS
  <1>8. \A n \in 1..7 : j[n].kind = "subs" => n = 6
    BY <1>4, <1>6, <1>7
  <1>9. /\ j[2].from = <<1>> /\ j[3].from = <<2>> /\ j[4].from = <<2>> /\ j[7].from[2] = 3
        /\ j[5].kind = "voice" /\ j[5].from[2] = 2 /\ j[6].kind = "subs" /\ j[6].from = <<5>>
    BY <1>4, <1>6
  <1> QED
    BY <1>8, <1>9

LEMMA ProducedTraced ==
    ASSUME NEW s, NEW u, NEW p, jobs = ProducedJobs(s, u, p), JobsShape(jobs), Len(jobs) = 7,
           NEW v, v = Produced(s, u), \A r \in Requests : ~Pending(r)
    PROVE  Traced(v)
  <1>1. PICK b, c, m, q, a, t, d, g :
            /\ b = [status |-> "READY", job |-> 1, artifact |-> 1, claim |-> 1]
            /\ c = [status |-> "APPROVED", job |-> 2, artifact |-> 2, claim |-> 2]
            /\ m = [status |-> "READY", job |-> 3, artifact |-> 3, claim |-> 3]
            /\ q = [status |-> "READY", job |-> 4, artifact |-> 4, claim |-> 4]
            /\ a = [status |-> "READY", job |-> None, audio |-> 5, hash |-> 2, claim |-> 5]
            /\ t = [status |-> "READY", job |-> None, vtt |-> 6, source |-> 5, claim |-> 6]
            /\ d = [status |-> "READY", job |-> 7, claim |-> 7]
            /\ g = [passed |-> TRUE, of |-> <<2, 3, 4>>, seen |-> <<2, 3, 4>>]
    OBVIOUS
  <1>2. [Text(2) EXCEPT !.status = "APPROVED"] = c
    BY <1>1 DEF Text
  <1>3. /\ v.brief = b /\ v.script = c /\ v.plan = m /\ v.seo = q /\ v.voice = a /\ v.subs = t
        /\ v.render = d /\ v.score = g
    BY <1>1, <1>2 DEF Produced, Text
  <1>4. DOMAIN jobs = 1..7
    BY JobNumbers
  <1>5. /\ jobs[2].from = <<1>> /\ jobs[3].from = <<2>> /\ jobs[4].from = <<2>> /\ jobs[7].from[2] = 3
        /\ jobs[5].kind = "voice" /\ jobs[5].from[2] = 2 /\ jobs[6].kind = "subs" /\ jobs[6].from = <<5>>
    BY ProducedFrom
  <1>6. MediaKnown(v)
    <2>1. a.job = None /\ a.audio = 5 /\ a.hash = 2 /\ t.job = None /\ t.vtt = 6 /\ t.source = 5 /\ d.job = 7
      BY <1>1
    <2> QED
      BY <1>3, <1>4, <1>5, <2>1 DEF MediaKnown, Made
  <1>7. TextsKnown(v)
    <2>1. TextKnown(b) /\ TextKnown(c) /\ TextKnown(m) /\ TextKnown(q)
      BY <1>1, <1>4 DEF TextKnown, Passed
    <2> QED
      BY <1>3, <2>1, Names DEF TextsKnown
  <1>8. ChainKnown(v)
    <2>1. /\ b.status = "READY" /\ b.artifact = 1 /\ c.status = "APPROVED" /\ c.artifact = 2 /\ c.claim = 2
          /\ m.status = "READY" /\ m.artifact = 3 /\ m.claim = 3 /\ q.artifact = 4 /\ q.claim = 4
          /\ d.job = 7 /\ d.claim = 7 /\ g.seen = <<2, 3, 4>>
      BY <1>1
    <2>2. Artifacts(v) = v.score.seen /\ v.score.seen[1] = 2 /\ None # 2
      BY <1>3, <2>1, VideoAssumption DEF Artifacts
    <2>3. \A k \in {"plan", "seo"} : v[k].claim # 0 =>
              v.script.status = "APPROVED" /\ jobs[v[k].claim].from = <<v.script.artifact>>
      BY <1>3, <1>5, <2>1
    <2> QED
      BY <1>3, <1>5, <2>1, <2>2, <2>3 DEF ChainKnown
  <1> QED
    BY <1>6, <1>7, <1>8 DEF Traced

LEMMA CurrentInit == VideoInit => CurrentInv
  <1> SUFFICES ASSUME VideoInit PROVE CurrentInv
    OBVIOUS
  <1>1. RenderInv /\ JobsShape(jobs)
    BY RenderInit DEF RenderInv, OwnedInv
  <1>2. \A r \in Requests : ~Pending(r)
    BY DEF VideoInit, Idle, Pending
  <1>3. JobsAsked
    BY <1>2 DEF JobsAsked
  <1>4. CASE video = Created /\ jobs = <<>>
    <2>1. SubsFollowVoice
      BY <1>4 DEF SubsFollowVoice, Made
    <2>2. /\ video.brief = NoText /\ video.script = NoText /\ video.plan = NoText /\ video.seo = NoText
          /\ video.voice = NoVoice /\ video.subs = NoSubs /\ video.render = NoRender /\ video.score = NoScore
      BY <1>4 DEF Created
    <2>3. MediaKnown(video) /\ ChainKnown(video)
      BY <2>2, NothingKnown DEF MediaKnown, ChainKnown
    <2>4. TextKnown(NoText)
      BY DEF TextKnown, Passed, NoText
    <2>5. TextsKnown(video)
      BY <1>2, <2>2, <2>4, Names DEF TextsKnown
    <2> QED
      BY <1>1, <1>3, <2>1, <2>3, <2>5 DEF CurrentInv, Traced
  <1>5. CASE \E s \in Scenes, u \in Uploads :
                video = Produced(s, u) /\ jobs = ProducedJobs(s, u, CHOOSE p \in Profiles : TRUE)
    <2>1. PICK s, u, p : video = Produced(s, u) /\ jobs = ProducedJobs(s, u, p)
      BY <1>5
    <2>2. Len(jobs) = 7 /\ DOMAIN jobs = 1..7
      BY <1>1, <2>1, ProducedShape, JobNumbers
    <2>3. SubsFollowVoice
      <3>1. \A n \in 1..7 : jobs[n].kind = "subs" => n = 6
        BY <2>1, ProducedFrom
      <3>2. jobs[6].from = <<5>>
        BY <2>1, ProducedFrom
      <3> QED
        BY <2>2, <3>1, <3>2 DEF SubsFollowVoice, Made
    <2>4. Traced(video)
      BY <1>1, <1>2, <2>1, <2>2, ProducedTraced
    <2> QED
      BY <1>1, <1>3, <2>3, <2>4 DEF CurrentInv
  <1> QED
    BY <1>4, <1>5 DEF VideoInit

LEMMA CurrentStep ==
    ASSUME CurrentInv, [Next]_vars
    PROVE  CurrentInv'
  <1>0. /\ RenderInv /\ OwnedInv /\ RequestsKnown /\ Traced(video)
    BY DEF CurrentInv, RenderInv, OwnedInv
  <1>1. RenderInv'
    BY <1>0, RenderStep
  <1>2. ASSUME NEW r \in Requests, NEW k \in TextStages, ClaimStage(r, k) PROVE CurrentInv'
    BY <1>1, <1>2, ClaimStageCurrent
  <1>3. ASSUME NEW r \in Requests,
               \/ \E s \in Scenes : GenerateSceneImage(r, s)
               \/ \E p \in Profiles : GenerateVoice(r, p)
               \/ GenerateSubtitles(r)
        PROVE  CurrentInv'
    BY <1>1, <1>3, MediaClaimCurrent
  <1>4. ASSUME NEW r \in Requests, SubmitRender(r) PROVE CurrentInv'
    BY <1>1, <1>4, SubmitRenderCurrent
  <1>5. ASSUME NEW r \in Requests, SubmitJob(r) PROVE CurrentInv'
    BY <1>1, <1>5, SubmitJobCurrent
  <1>6. ASSUME NEW r \in Requests, RecordJob(r) PROVE CurrentInv'
    BY <1>1, <1>6, RecordJobCurrent
  <1>7. ASSUME NEW r \in Requests, ReviewStep(r) PROVE CurrentInv'
    <2>1. /\ UNCHANGED jobs
          /\ \/ UNCHANGED req
             \/ \E call : req' = [req EXCEPT ![r] = call] /\ call.pc \notin {"submit", "record"}
      BY <1>0, <1>7, ReviewFollows
    <2>2. \A q \in Requests : Pending(q)' => Pending(q) /\ req'[q] = req[q]
      <3>1. CASE UNCHANGED req
        BY <3>1 DEF Pending
      <3>2. CASE \E call : req' = [req EXCEPT ![r] = call] /\ call.pc \notin {"submit", "record"}
        BY <1>0, <3>2 DEF Pending, RequestsKnown
      <3> QED
        BY <2>1, <3>1, <3>2
    <2>3. PICK v : video' = v /\ MediaKnown(v) /\ (~belated' => TextsKnown(v) /\ ChainKnown(v))
      BY <1>7, ReviewTraced
    <2> QED
      BY <1>1, <2>1, <2>2, <2>3, QuietCurrent
  <1> DEFINE Same == UNCHANGED <<video, belated>>
  <1>8. ASSUME Same, DOMAIN jobs' = DOMAIN jobs,
               \A n \in DOMAIN jobs : jobs'[n].kind = jobs[n].kind /\ jobs'[n].from = jobs[n].from,
               \A q \in Requests : Pending(q)' => Pending(q) /\ req'[q] = req[q]
        PROVE  CurrentInv'
    <2>1. PICK v : v = video
      OBVIOUS
    <2>2. video' = v /\ MediaKnown(v) /\ (~belated' => TextsKnown(v) /\ ChainKnown(v))
      BY <1>0, <1>8, <2>1 DEF Traced
    <2> QED
      BY <1>1, <1>8, <2>2, QuietCurrent
  <1>9. ASSUME NEW r \in Requests, Abort(r) PROVE CurrentInv'
    <2>1. UNCHANGED <<jobs, video, belated>> /\ req' = [req EXCEPT ![r] = Idle] /\ Idle.pc = "idle"
      BY <1>9 DEF Abort, Done, Idle
    <2>2. \A q \in Requests : Pending(q)' => Pending(q) /\ req'[q] = req[q]
      BY <1>0, <2>1 DEF Pending, RequestsKnown
    <2> QED
      BY <1>8, <2>1, <2>2
  <1>10. ASSUME \/ EnsureAiStagesFinalized \/ ApproveScript
                \/ \E s \in Scenes, u \in Uploads : AttachSceneAsset(s, u)
         PROVE  CurrentInv'
    <2>1. UNCHANGED <<req, jobs, belated>>
      BY <1>0, <1>10, TransactionFollows
    <2>2. \A q \in Requests : Pending(q)' => Pending(q) /\ req'[q] = req[q]
      BY <2>1 DEF Pending
    <2>3. PICK v : video' = v /\ Traced(v)
      BY <1>10, TransactionTraced
    <2>4. MediaKnown(v) /\ (~belated' => TextsKnown(v) /\ ChainKnown(v))
      BY <2>1, <2>3 DEF Traced
    <2> QED
      BY <1>1, <2>1, <2>2, <2>3, <2>4, QuietCurrent
  <1>11. ASSUME OutsideStep PROVE CurrentInv'
    <2>1. /\ UNCHANGED <<video, req, belated>> /\ DOMAIN jobs' = DOMAIN jobs
          /\ \A n \in DOMAIN jobs : jobs'[n].kind = jobs[n].kind /\ jobs'[n].from = jobs[n].from
      BY <1>0, <1>11, OutsideKeeps
    <2>2. \A q \in Requests : Pending(q)' => Pending(q) /\ req'[q] = req[q]
      BY <2>1 DEF Pending
    <2> QED
      BY <1>8, <2>1, <2>2
  <1>12. CASE UNCHANGED vars
    <2>1. UNCHANGED <<video, jobs, req, belated>>
      BY <1>12 DEF vars
    <2>2. \A q \in Requests : Pending(q)' => Pending(q) /\ req'[q] = req[q]
      BY <2>1 DEF Pending
    <2> QED
      BY <1>8, <2>1, <2>2
  <1> QED
    BY <1>2, <1>3, <1>4, <1>5, <1>6, <1>7, <1>9, <1>10, <1>11, <1>12
    DEF Next, Request, ReviewStep, OutsideStep

-----------------------------------------------------------------------------
\* The SEO there is after a step is the one of the row, or both are as they were;
\* and nothing but the record of a score brings one.
RowAfter(v, w) ==
    /\ w.score \in {v.score, NoScore}
    /\ \/ w.seo.artifact \in {None, w.columns}
       \/ w.seo.artifact = v.seo.artifact /\ w.columns = v.columns

LEMMA RowAfterTrans ==
    ASSUME NEW u, NEW v, NEW w, RowAfter(u, v), RowAfter(v, w)
    PROVE  RowAfter(u, w)
  BY DEF RowAfter

LEMMA RowStays ==
    ASSUME NEW v, NEW w, w.seo = v.seo, w.columns = v.columns, w.score = v.score
    PROVE  RowAfter(v, w)
  BY DEF RowAfter

LEMMA FinalTextsRow ==
    ASSUME NEW v, VideoShape(v)
    PROVE  RowAfter(v, FinalTexts(v))
  <1>1. PICK w, a : w = FinalTexts(v) /\ a = v.seo
    OBVIOUS
  <1>2. w.seo = FinalText(a, TRUE) /\ w.columns = Columns(v, w.seo) /\ w.score = v.score
    BY <1>1, FinalTextsFields
  <1>3. DOMAIN a = {"status", "job", "artifact", "claim"}
    BY <1>1, Fields, Names DEF VideoShape
  <1>4. w.seo.status = "READY" \/ w.seo.artifact = a.artifact
    BY <1>2, <1>3 DEF FinalText
  <1> QED
    BY <1>1, <1>2, <1>4 DEF Columns, RowAfter

LEMMA MediaRow ==
    ASSUME NEW v, VideoShape(v)
    PROVE  RowAfter(v, Media(v)) /\ VideoShape(Media(v))
  <1>1. PICK w : w = Media(v)
    OBVIOUS
  <1>2. w.seo = v.seo /\ w.columns = v.columns /\ w.score = v.score
    BY <1>1, MediaFields, Names
  <1> QED
    BY <1>1, <1>2, RowStays, MediaFields

LEMMA ReconciledRow ==
    ASSUME NEW v, VideoShape(v)
    PROVE  RowAfter(v, Reconciled(v)) /\ VideoShape(Reconciled(v))
  <1>1. PICK a, b : a = Media(v) /\ b = Rendered(a)
    OBVIOUS
  <1>2. RowAfter(v, a) /\ VideoShape(a)
    BY <1>1, MediaRow
  <1>3. VideoShape(b) /\ b.seo = a.seo /\ b.columns = a.columns /\ b.score = a.score
    BY <1>1, <1>2, RenderedFields DEF VideoFields
  <1>4. RowAfter(a, b)
    BY <1>3, RowStays
  <1> QED
    BY <1>1, <1>2, <1>3, <1>4, RowAfterTrans DEF Reconciled

LEMMA QaRow ==
    ASSUME NEW v, VideoShape(v)
    PROVE  RowAfter(v, QaOf(v)) /\ VideoShape(QaOf(v))
  <1>1. PICK w : w = QaOf(v)
    OBVIOUS
  <1>2. VideoShape(w) /\ w.seo = v.seo /\ w.columns = v.columns /\ w.score = v.score
    BY <1>1, QaFields DEF VideoFields
  <1> QED
    BY <1>1, <1>2, RowStays

LEMMA FinalizedRow ==
    ASSUME VideoShape(video)
    PROVE  RowAfter(video, Finalized) /\ VideoShape(Finalized)
  <1>1. PICK a, b, c : a = FinalTexts(video) /\ b = Reconciled(a) /\ c = QaOf(b)
    OBVIOUS
  <1>2. RowAfter(video, a) /\ VideoShape(a)
    BY <1>1, FinalTextsRow, FinalTextsFields
  <1>3. RowAfter(a, b) /\ VideoShape(b)
    BY <1>1, <1>2, ReconciledRow
  <1>4. RowAfter(b, c) /\ VideoShape(c)
    BY <1>1, <1>3, QaRow
  <1>5. RowAfter(video, c)
    BY <1>2, <1>3, <1>4, RowAfterTrans
  <1> QED
    BY <1>1, <1>4, <1>5 DEF Finalized

\* A step that scores nothing and records no score.
LEMMA ScoreFrame ==
    ASSUME ScoreInv, NEW w, video' = w, RowAfter(video, w),
           \A q \in Requests : req'[q].pc = "scored" => req'[q] = req[q]
    PROVE  ScoreInv'
  <1>1. ~NoScore.passed
    BY NothingKnown
  <1>2. ColumnsKnown(w) /\ Honest(w.score)
    BY <1>1 DEF ScoreInv, RowAfter, ColumnsKnown, Honest
  <1>3. ASSUME NEW q \in Requests, req'[q].pc = "scored"
        PROVE  Honest(req'[q].score)
    BY <1>3 DEF ScoreInv, At
  <1>4. \A q \in Requests : At(q, "scored")' => Honest(req[q].score)'
    BY <1>3 DEF At, Honest
  <1>5. ColumnsKnown(video)' /\ Honest(video.score)'
    BY <1>2 DEF ColumnsKnown, Honest
  <1> QED
    BY <1>4, <1>5 DEF ScoreInv

LEMMA CalledFrame ==
    ASSUME ScoreInv, RequestsKnown, NEW w, video' = w, RowAfter(video, w),
           NEW r \in Requests, NEW call, req' = [req EXCEPT ![r] = call], call.pc # "scored"
    PROVE  ScoreInv'
  <1>1. \A q \in Requests : req'[q].pc = "scored" => req'[q] = req[q]
    BY DEF RequestsKnown
  <1> QED
    BY <1>1, ScoreFrame

LEMMA ClaimScores ==
    ASSUME ScoreInv, RequestsKnown, NEW r \in Requests, NEW what, NEW sort, NEW from, NEW v,
           Claim(r, what, sort, from, v), RowAfter(video, v)
    PROVE  ScoreInv'
  <1>1. PICK call : call = [pc |-> "submit", what |-> what, serial |-> Serial]
    OBVIOUS
  <1>2. req' = [req EXCEPT ![r] = call] /\ video' = v
    BY <1>1 DEF Claim, Begin
  <1>3. call.pc = "submit"
    BY <1>1
  <1> QED
    BY <1>2, <1>3, CalledFrame

LEMMA ClaimStageScores ==
    ASSUME ScoreInv, RequestsKnown, VideoShape(video), NEW r \in Requests, NEW k \in TextStages,
           ClaimStage(r, k)
    PROVE  ScoreInv'
  <1>1. PICK v : v = Finalized
    OBVIOUS
  <1>2. RowAfter(video, v) /\ VideoShape(v) /\ DOMAIN v = VideoFields
    BY <1>1, FinalizedRow, ShapeFields
  <1>3. PICK x, y : x = ScriptReset(v) /\ y = RenderReset(v)
    OBVIOUS
  <1>4. DOMAIN x = VideoFields /\ x.seo = NoText /\ x.score = NoScore
    BY <1>2, <1>3, ScriptResetFields
  <1>5. DOMAIN y = VideoFields /\ y.seo = v.seo /\ y.score = NoScore /\ y.columns = v.columns
    BY <1>2, <1>3, RenderResetFields, Names DEF RenderReset, VideoFields
  <1>6. NoText.artifact = None /\ Generating.artifact = None
    BY DEF NoText, Generating
  <1>7. ASSUME NEW from, NEW w, Claim(r, k, k, from, w), w.score = NoScore,
               w.seo.artifact = None \/ (w.seo = v.seo /\ w.columns = v.columns)
        PROVE  ScoreInv'
    <2>1. RowAfter(v, w)
      BY <1>7 DEF RowAfter
    <2>2. RowAfter(video, w)
      BY <1>2, <2>1, RowAfterTrans
    <2> QED
      BY <1>7, <2>2, ClaimScores
  <1>8. CASE k = "brief"
    <2>1. PICK w : w = [x EXCEPT !.brief = Generating, !.script = NoText]
      OBVIOUS
    <2>2. Claim(r, k, k, <<>>, w)
      BY <1>1, <1>3, <1>8, <2>1 DEF ClaimStage
    <2>3. w.score = NoScore /\ w.seo = NoText
      BY <1>4, <2>1 DEF VideoFields
    <2> QED
      BY <1>6, <1>7, <2>2, <2>3
  <1>9. CASE k = "script"
    <2>1. PICK w : w = [x EXCEPT !.script = Generating]
      OBVIOUS
    <2>2. Claim(r, k, k, <<v.brief.artifact>>, w)
      BY <1>1, <1>3, <1>9, <2>1 DEF ClaimStage
    <2>3. w.score = NoScore /\ w.seo = NoText
      BY <1>4, <2>1 DEF VideoFields
    <2> QED
      BY <1>6, <1>7, <2>2, <2>3
  <1>10. CASE k = "plan"
    <2>1. PICK w : w = [y EXCEPT !.plan = Generating]
      OBVIOUS
    <2>2. Claim(r, k, k, <<v.script.artifact>>, w)
      BY <1>1, <1>3, <1>10, <2>1 DEF ClaimStage
    <2>3. w.score = NoScore /\ w.seo = v.seo /\ w.columns = v.columns
      BY <1>5, <2>1 DEF VideoFields
    <2> QED
      BY <1>7, <2>2, <2>3
  <1>11. CASE k = "seo"
    <2>1. PICK w : w = [v EXCEPT !.seo = Generating, !.score = NoScore]
      OBVIOUS
    <2>2. Claim(r, k, k, <<v.script.artifact>>, w)
      BY <1>1, <1>11, <2>1 DEF ClaimStage
    <2>3. w.score = NoScore /\ w.seo = Generating
      BY <1>2, <2>1 DEF VideoFields
    <2> QED
      BY <1>6, <1>7, <2>2, <2>3
  <1> QED
    BY <1>8, <1>9, <1>10, <1>11, Names

\* The claims of the media stages and of the render leave the texts.
LEMMA LaterClaimScores ==
    ASSUME ScoreInv, RequestsKnown, VideoShape(video), NEW r \in Requests,
           \/ \E s \in Scenes : GenerateSceneImage(r, s)
           \/ \E p \in Profiles : GenerateVoice(r, p)
           \/ GenerateSubtitles(r)
           \/ SubmitRender(r)
    PROVE  ScoreInv'
  <1>1. PICK v, u : v = Media(video) /\ u = Reconciled(video)
    OBVIOUS
  <1>2. /\ RowAfter(video, v) /\ DOMAIN v = VideoFields
        /\ RowAfter(video, u) /\ DOMAIN u = VideoFields
    BY <1>1, MediaRow, ReconciledRow, ShapeFields
  <1>3. ASSUME NEW what, NEW sort, NEW from, NEW w, Claim(r, what, sort, from, w),
               NEW z \in {v, u}, w.seo = z.seo, w.columns = z.columns, w.score = z.score
        PROVE  ScoreInv'
    <2>1. RowAfter(video, w)
      BY <1>2, <1>3, RowStays, RowAfterTrans
    <2> QED
      BY <1>3, <2>1, ClaimScores
  <1>4. ASSUME NEW s \in Scenes, GenerateSceneImage(r, s) PROVE ScoreInv'
    <2>1. PICK w : w = [v EXCEPT !.scenes[s].job = Placeholder, !.scenes[s].claim = Serial]
      OBVIOUS
    <2>2. Claim(r, s, "image", <<s, v.plan.artifact>>, w)
      BY <1>1, <1>4, <2>1 DEF GenerateSceneImage
    <2>3. w.seo = v.seo /\ w.columns = v.columns /\ w.score = v.score
      BY <1>2, <2>1 DEF VideoFields
    <2> QED
      BY <1>3, <2>2, <2>3
  <1>5. ASSUME NEW p \in Profiles, GenerateVoice(r, p) PROVE ScoreInv'
    <2>1. PICK a, b, w : /\ a = [NoVoice EXCEPT !.status = "RUNNING", !.claim = Serial, !.job = Placeholder]
                         /\ b = IF v.subs.status = "PENDING" THEN v.subs ELSE NoSubs
                         /\ w = [v EXCEPT !.voice = a, !.subs = b]
      OBVIOUS
    <2>2. Claim(r, "voice", "voice", <<p, v.script.artifact>>, w)
      BY <1>1, <1>2, <1>5, <2>1 DEF GenerateVoice, VideoFields
    <2>3. w.seo = v.seo /\ w.columns = v.columns /\ w.score = v.score
      BY <1>2, <2>1 DEF VideoFields
    <2> QED
      BY <1>3, <2>2, <2>3
  <1>6. ASSUME GenerateSubtitles(r) PROVE ScoreInv'
    <2>1. PICK b, w : /\ b = [v.subs EXCEPT !.status = "RUNNING", !.claim = Serial,
                                            !.job = Placeholder, !.vtt = None]
                      /\ w = [v EXCEPT !.subs = b]
      OBVIOUS
    <2>2. Claim(r, "subs", "subs", <<v.voice.audio>>, w)
      BY <1>1, <1>2, <1>6, <2>1 DEF GenerateSubtitles, VideoFields
    <2>3. w.seo = v.seo /\ w.columns = v.columns /\ w.score = v.score
      BY <1>2, <2>1 DEF VideoFields
    <2> QED
      BY <1>3, <2>2, <2>3
  <1>7. ASSUME SubmitRender(r) PROVE ScoreInv'
    <2>1. PICK a, w : /\ a = [status |-> "RUNNING", job |-> Placeholder, claim |-> Serial]
                      /\ w = [u EXCEPT !.render = a, !.qa = NoQa]
      OBVIOUS
    <2>2. Claim(r, "render", "render", <<Frozen(u), u.plan.artifact, Upstream(u)>>, w)
      BY <1>1, <1>7, <2>1 DEF SubmitRender
    <2>3. w.seo = u.seo /\ w.columns = u.columns /\ w.score = u.score
      BY <1>2, <2>1 DEF VideoFields
    <2> QED
      BY <1>3, <2>2, <2>3
  <1> QED
    BY <1>4, <1>5, <1>6, <1>7

\* A record leaves what is persisted of the SEO.
LEMMA RecordJobScores ==
    ASSUME CurrentInv, ScoreInv, NEW r \in Requests, RecordJob(r)
    PROVE  ScoreInv'
  <1>0. VideoShape(video) /\ RequestsKnown /\ DOMAIN video = VideoFields
    BY ShapeFields DEF CurrentInv, RenderInv, OwnedInv
  <1>1. PICK what, n, w : what = req[r].what /\ n = req[r].job /\ w = video'
    OBVIOUS
  <1>2. /\ what \in StageNames \cup Scenes
        /\ \A k \in StageNames : k # what => w[k] = video[k]
        /\ w.score = video.score
        /\ what \notin Scenes => Came(video[what], w[what], what, n)
    <2>1. what \in StageNames \cup Scenes
      BY <1>0, <1>1 DEF RecordJob, At, Pending, RequestsKnown
    <2> QED
      BY <1>1, <2>1, RecordedFields
  <1>3. w.columns = video.columns
    <2>1. CASE what \in Scenes
      BY <1>0, <1>1, <2>1 DEF RecordJob, SceneRecorded, VideoFields
    <2>2. CASE what \notin Scenes
      <3>1. PICK b : w = [video EXCEPT ![what] = b]
        BY <1>1, <2>2 DEF RecordJob
      <3>2. what # "columns"
        BY <1>2, <2>2, Names
      <3> QED
        BY <1>0, <3>1, <3>2 DEF VideoFields
    <2> QED
      BY <2>1, <2>2
  <1>4. w.seo.artifact = video.seo.artifact
    BY <1>2, VideoAssumption, Names DEF Came
  <1>5. RowAfter(video, w)
    BY <1>2, <1>3, <1>4 DEF RowAfter
  <1>6. req' = [req EXCEPT ![r] = Idle] /\ Idle.pc = "idle"
    BY DEF RecordJob, Done, Idle
  <1> QED
    BY <1>0, <1>1, <1>5, <1>6, CalledFrame

LEMMA ReviewScores ==
    ASSUME ScoreInv, RequestsKnown, VideoShape(video), NEW r \in Requests, ReviewStep(r)
    PROVE  ScoreInv'
  <1>1. PICK v, u : v = Finalized /\ u = Reconciled(video)
    OBVIOUS
  <1>2. RowAfter(video, v) /\ RowAfter(video, u) /\ VideoShape(u) /\ DOMAIN u = VideoFields
    BY <1>1, FinalizedRow, ReconciledRow, ShapeFields
  <1>3. CASE QaGather(r)
    <2>1. PICK w, call : w = QaOf(u) /\ call = [pc |-> "qa", render |-> w.render.job]
      OBVIOUS
    <2>2. video' = w /\ req' = [req EXCEPT ![r] = call]
      BY <1>1, <1>3, <2>1 DEF QaGather, Mutation, Begin
    <2>3. RowAfter(video, w) /\ call.pc = "qa"
      BY <1>2, <2>1, QaRow, RowAfterTrans
    <2> QED
      BY <2>2, <2>3, CalledFrame
  <1>4. CASE QaRecord(r)
    <2>1. PICK x, w : w = [u EXCEPT !.qa = x] /\ video' = w
      BY <1>1, <1>4 DEF QaRecord, Mutation
    <2>2. w.seo = u.seo /\ w.columns = u.columns /\ w.score = u.score
      BY <1>2, <2>1 DEF VideoFields
    <2>3. RowAfter(video, w)
      BY <1>2, <2>2, RowStays, RowAfterTrans
    <2>4. req' = [req EXCEPT ![r] = Idle] /\ Idle.pc = "idle"
      BY <1>4 DEF QaRecord, Done, Idle
    <2> QED
      BY <2>1, <2>3, <2>4, CalledFrame
  <1>5. CASE ScoreCheck(r)
    <2>1. PICK call : call = [pc |-> "score"]
      OBVIOUS
    <2>2. video' = v /\ req' = [req EXCEPT ![r] = call] /\ call.pc = "score"
      BY <1>1, <1>5, <2>1 DEF ScoreCheck, Mutation, Begin
    <2> QED
      BY <1>2, <2>2, CalledFrame
  <1>6. CASE ScoreTexts(r)
    <2>1. PICK call, w : /\ call = [pc |-> "scoreRow", texts |-> <<video.script.artifact, video.plan.artifact>>]
                         /\ w = video
      OBVIOUS
    <2>2. video' = w /\ req' = [req EXCEPT ![r] = call] /\ call.pc = "scoreRow"
      BY <1>6, <2>1 DEF ScoreTexts
    <2>3. RowAfter(video, w)
      BY <2>1, RowStays
    <2> QED
      BY <2>2, <2>3, CalledFrame
  <1>7. CASE Score(r)
    <2>1. PICK text, of, seen : /\ text = req[r].texts
                                /\ of = <<text[1], text[2], video.columns>>
                                /\ seen = <<text[1], text[2], video.seo.artifact>>
      OBVIOUS
    <2>2. PICK score : /\ score = [passed |-> TRUE, of |-> of, seen |-> seen]
                       /\ req' = [req EXCEPT ![r] = [pc |-> "scored", score |-> score]]
      BY <1>7, <2>1 DEF Score
    <2>3. Honest(score)
      <3>1. of[1] = seen[1] /\ of[2] = seen[2] /\ seen[3] \in {None, of[3]}
        BY <2>1 DEF ScoreInv, ColumnsKnown
      <3>2. \A i \in 1..3 : seen[i] \in {None, of[i]}
        BY <3>1
      <3> QED
        BY <2>2, <3>2 DEF Honest
    <2>4. PICK call : call = [pc |-> "scored", score |-> score]
      OBVIOUS
    <2>5. /\ req'[r] = call /\ call.score = score
          /\ \A q \in Requests : q # r => req'[q] = req[q]
      BY <2>2, <2>4 DEF RequestsKnown
    <2>6. \A q \in Requests : req'[q].pc = "scored" => Honest(req'[q].score)
      BY <2>3, <2>5 DEF ScoreInv, At
    <2>7. \A q \in Requests : At(q, "scored")' => Honest(req[q].score)'
      BY <2>6 DEF At, Honest
    <2>8. video' = video
      BY <1>7 DEF Score
    <2>9. ColumnsKnown(video)' /\ Honest(video.score)'
      BY <2>8 DEF ScoreInv, ColumnsKnown, Honest
    <2> QED
      BY <2>7, <2>9 DEF ScoreInv
  <1>8. CASE ScoreRecord(r)
    <2>0. PICK x \in {NoScore, req[r].score} : video' = [video EXCEPT !.score = x]
      BY <1>8 DEF ScoreRecord
    <2>1. PICK w : w = [video EXCEPT !.score = x] /\ video' = w
      BY <2>0
    <2>2. video' = w /\ Honest(x) /\ req' = [req EXCEPT ![r] = Idle] /\ Idle.pc = "idle"
      BY <1>8, <2>0, <2>1, NothingKnown DEF ScoreRecord, Done, ScoreInv, Idle, Honest
    <2>3. w.score = x /\ w.seo = video.seo /\ w.columns = video.columns
      BY <2>1, ShapeFields DEF VideoFields
    <2>4. ColumnsKnown(video)' /\ Honest(video.score)'
      BY <2>2, <2>3 DEF ScoreInv, ColumnsKnown, Honest
    <2>5. \A q \in Requests : req'[q].pc = "scored" => Honest(req'[q].score)
      BY <2>2 DEF RequestsKnown, ScoreInv, At
    <2>6. \A q \in Requests : At(q, "scored")' => Honest(req[q].score)'
      BY <2>5 DEF At, Honest
    <2> QED
      BY <2>4, <2>6 DEF ScoreInv
  <1>9. CASE AssertReadyForReview(r)
    <2>1. video' = v /\ (UNCHANGED req \/ Begin(r, [pc |-> "review"]))
      BY <1>1, <1>9 DEF AssertReadyForReview, Mutation
    <2>2. CASE UNCHANGED req
      BY <1>2, <2>1, <2>2, ScoreFrame
    <2>3. CASE Begin(r, [pc |-> "review"])
      <3>1. PICK call : call = [pc |-> "review"]
        OBVIOUS
      <3>2. req' = [req EXCEPT ![r] = call] /\ call.pc = "review"
        BY <2>3, <3>1 DEF Begin
      <3> QED
        BY <1>2, <2>1, <3>2, CalledFrame
    <2> QED
      BY <2>1, <2>2, <2>3
  <1>10. CASE SubmitForReview(r)
    <2>1. PICK w : w = video
      OBVIOUS
    <2>2. video' = w /\ req' = [req EXCEPT ![r] = Idle] /\ Idle.pc = "idle"
      BY <1>10, <2>1 DEF SubmitForReview, Done, Idle
    <2>3. RowAfter(video, w)
      BY <2>1, RowStays
    <2> QED
      BY <2>2, <2>3, CalledFrame
  <1> QED
    BY <1>3, <1>4, <1>5, <1>6, <1>7, <1>8, <1>9, <1>10 DEF ReviewStep

LEMMA TransactionScores ==
    ASSUME OwnedInv, ScoreInv,
           \/ EnsureAiStagesFinalized \/ ApproveScript
           \/ \E s \in Scenes, u \in Uploads : AttachSceneAsset(s, u)
    PROVE  ScoreInv'
  <1>0. VideoShape(video) /\ UNCHANGED req
    BY TransactionFollows DEF OwnedInv
  <1>1. PICK v, m : v = Finalized /\ m = Media(video)
    OBVIOUS
  <1>2. /\ RowAfter(video, v) /\ VideoShape(v) /\ DOMAIN v = VideoFields
        /\ RowAfter(video, m) /\ VideoShape(m) /\ DOMAIN m = VideoFields
    BY <1>0, <1>1, FinalizedRow, MediaRow, ShapeFields
  <1>3. CASE EnsureAiStagesFinalized
    BY <1>0, <1>1, <1>2, <1>3, ScoreFrame DEF EnsureAiStagesFinalized, Mutation
  <1>4. CASE ApproveScript
    <2>1. PICK w : w = [v EXCEPT !.script.status = "APPROVED"]
      OBVIOUS
    <2>2. video' = w /\ w.seo = v.seo /\ w.columns = v.columns /\ w.score = v.score
      BY <1>1, <1>2, <1>4, <2>1 DEF ApproveScript, Mutation, VideoFields
    <2>3. RowAfter(video, w)
      BY <1>2, <2>2, RowStays, RowAfterTrans
    <2> QED
      BY <1>0, <2>2, <2>3, ScoreFrame
  <1>5. ASSUME NEW s \in Scenes, NEW u \in Uploads, AttachSceneAsset(s, u)
        PROVE  ScoreInv'
    <2>1. PICK b, c : b = [NoScene EXCEPT !.group = u, !.asset = upload[u]] /\ c = [m EXCEPT !.scenes[s] = b]
      OBVIOUS
    <2>2. s \in DOMAIN m.scenes /\ video' = Media(c)
      BY <1>1, <1>5, <2>1 DEF AttachSceneAsset, Mutation
    <2>3. DOMAIN b = DOMAIN NoScene
      BY <2>1 DEF NoScene
    <2>4. /\ DOMAIN c = VideoFields /\ \A f \in VideoFields : f # "scenes" => c[f] = m[f]
          /\ \A x \in DOMAIN c.scenes : x \in DOMAIN m.scenes /\ c.scenes[x] = IF x = s THEN b ELSE m.scenes[x]
      BY <1>2, <2>1, <2>2 DEF VideoFields
    <2>5. VideoShape(c)
      BY <1>2, <2>3, <2>4, Names DEF VideoShape, VideoFields
    <2>6. c.seo = m.seo /\ c.columns = m.columns /\ c.score = m.score
      BY <2>4 DEF VideoFields
    <2>7. RowAfter(video, Media(c))
      BY <1>2, <2>5, <2>6, RowStays, MediaRow, RowAfterTrans
    <2> QED
      BY <1>0, <2>2, <2>7, ScoreFrame
  <1> QED
    BY <1>3, <1>4, <1>5

LEMMA ScoreInit == VideoInit => ScoreInv
  <1> SUFFICES ASSUME VideoInit PROVE ScoreInv
    OBVIOUS
  <1>1. \A r \in Requests : req[r].pc = "idle"
    BY DEF VideoInit, Idle
  <1>2. CASE video = Created
    <2>1. video.seo.artifact = None /\ video.score = NoScore
      BY <1>2 DEF Created, NoText
    <2> QED
      BY <1>1, <2>1, NothingKnown DEF ScoreInv, ColumnsKnown, Honest, At
  <1>3. ASSUME NEW s \in Scenes, NEW u \in Uploads, video = Produced(s, u)
        PROVE  ScoreInv
    <2>1. PICK g : g = [passed |-> TRUE, of |-> <<2, 3, 4>>, seen |-> <<2, 3, 4>>]
      OBVIOUS
    <2>2. video.seo = Text(4) /\ video.columns = 4 /\ video.score = g
      BY <1>3, <2>1 DEF Produced
    <2>3. video.seo.artifact = 4 /\ video.score.of = video.score.seen
      BY <2>1, <2>2 DEF Text
    <2> QED
      BY <1>1, <2>2, <2>3 DEF ScoreInv, ColumnsKnown, Honest, At
  <1> QED
    BY <1>2, <1>3 DEF VideoInit

LEMMA ScoreStep ==
    ASSUME CurrentInv, ScoreInv, [Next]_vars
    PROVE  ScoreInv'
  <1>0. OwnedInv /\ RequestsKnown /\ VideoShape(video)
    BY DEF CurrentInv, RenderInv, OwnedInv
  <1>1. ASSUME NEW r \in Requests, NEW k \in TextStages, ClaimStage(r, k) PROVE ScoreInv'
    BY <1>0, <1>1, ClaimStageScores
  <1>2. ASSUME NEW r \in Requests,
               \/ \E s \in Scenes : GenerateSceneImage(r, s)
               \/ \E p \in Profiles : GenerateVoice(r, p)
               \/ GenerateSubtitles(r) \/ SubmitRender(r)
        PROVE  ScoreInv'
    BY <1>0, <1>2, LaterClaimScores
  <1>3. ASSUME NEW r \in Requests, RecordJob(r) PROVE ScoreInv'
    BY <1>3, RecordJobScores
  <1>4. ASSUME NEW r \in Requests, ReviewStep(r) PROVE ScoreInv'
    BY <1>0, <1>4, ReviewScores
  <1>5. ASSUME NEW w, w = video, video' = w,
               \A q \in Requests : req'[q].pc = "scored" => req'[q] = req[q]
        PROVE  ScoreInv'
    BY <1>5, RowStays, ScoreFrame
  <1>6. ASSUME NEW r \in Requests, SubmitJob(r) PROVE ScoreInv'
    <2>1. PICK n : Submitted(r, n)
      BY <1>6 DEF SubmitJob
    <2>2. PICK call : call = [pc |-> "record", what |-> req[r].what, serial |-> req[r].serial, job |-> n]
      OBVIOUS
    <2>3. req' = [req EXCEPT ![r] = call] /\ call.pc = "record" /\ video' = video
      BY <1>6, <2>1, <2>2 DEF Submitted, SubmitJob
    <2> QED
      BY <1>0, <1>5, <2>3 DEF RequestsKnown
  <1>7. ASSUME NEW r \in Requests, Abort(r) PROVE ScoreInv'
    <2>1. req' = [req EXCEPT ![r] = Idle] /\ Idle.pc = "idle" /\ video' = video
      BY <1>7 DEF Abort, Done, Idle
    <2> QED
      BY <1>0, <1>5, <2>1 DEF RequestsKnown
  <1>8. ASSUME \/ EnsureAiStagesFinalized \/ ApproveScript
               \/ \E s \in Scenes, u \in Uploads : AttachSceneAsset(s, u)
        PROVE  ScoreInv'
    BY <1>0, <1>8, TransactionScores
  <1>9. ASSUME OutsideStep PROVE ScoreInv'
    <2>1. UNCHANGED <<video, req>>
      BY <1>0, <1>9, OutsideKeeps
    <2> QED
      BY <1>5, <2>1
  <1>10. CASE UNCHANGED vars
    <2>1. UNCHANGED <<video, req>>
      BY <1>10 DEF vars
    <2> QED
      BY <1>5, <2>1
  <1> QED
    BY <1>1, <1>2, <1>3, <1>4, <1>6, <1>7, <1>8, <1>9, <1>10
    DEF Next, Request, ReviewStep, OutsideStep

-----------------------------------------------------------------------------
\* A video that another reconciliation would leave as it is, with every gate met.
LEMMA SettledIsCurrent ==
    ASSUME CurrentInv, ScoreInv, ~belated, video = Finalized, GatesMet(video)
    PROVE  Current
  <1>0. /\ VideoShape(video) /\ JobsShape(jobs) /\ SubsFollowVoice /\ Traced(video)
        /\ MediaKnown(video) /\ TextsKnown(video) /\ ChainKnown(video)
    BY DEF CurrentInv, RenderInv, OwnedInv, Traced
  <1>1. PICK v, a, m, b : v = video /\ a = FinalTexts(v) /\ m = Media(a) /\ b = Rendered(m)
    OBVIOUS
  <1>2. v = QaOf(b)
    BY <1>1 DEF Finalized, Reconciled
  <1>3. VideoShape(a) /\ Traced(a) /\ MediaKnown(a)
    BY <1>0, <1>1, FinalTextsFields, FinalTextsTraced DEF Traced
  <1>4. /\ VideoShape(m) /\ m.voice = VoiceOf(a) /\ m.subs = SubsOf(a, m.voice) /\ m.script = a.script
    BY <1>1, <1>3, MediaFields, Names
  <1>5. /\ VideoShape(b) /\ b.render.status = RenderStatus(m) /\ b.render.job = m.render.job
        /\ b.script = m.script /\ b.voice = m.voice /\ b.subs = m.subs /\ b.scenes = m.scenes
    BY <1>1, <1>4, RenderedFields DEF VideoFields
  <1>6. /\ v.render = b.render
        /\ v.script = m.script /\ v.voice = m.voice /\ v.subs = m.subs /\ v.scenes = m.scenes
        /\ v.qa.passed => v.qa.render = v.render.job
    <2>1. /\ \A f \in VideoFields \ {"qa"} : v[f] = b[f]
          /\ v.qa = b.qa \/ v.qa = NoQa
          /\ v.qa.passed => b.render.status = "READY" /\ b.qa.render = b.render.job
      BY <1>2, <1>5, QaFields
    <2>2. /\ v.render = b.render /\ v.script = b.script /\ v.voice = b.voice /\ v.subs = b.subs
          /\ v.scenes = b.scenes
      BY <2>1 DEF VideoFields
    <2>3. ~NoQa.passed
      BY DEF NoQa
    <2> QED
      BY <1>5, <2>1, <2>2, <2>3
  <1>7. /\ v.script.status = "APPROVED" /\ v.voice.status = "READY" /\ v.render.status = "READY"
        /\ v.qa.passed /\ v.seo.status = "READY" /\ v.score.passed
    BY <1>1 DEF GatesMet
  <1>8. DOMAIN jobs = 1..Len(jobs) /\ None \notin DOMAIN jobs /\ 0 \notin DOMAIN jobs
        /\ Placeholder \notin DOMAIN jobs
    BY <1>0, JobNumbers
  <1>9. \A k \in TextStages : Passed(v[k]) => v[k].artifact = v[k].claim /\ v[k].claim \in DOMAIN jobs
    BY <1>0, <1>1 DEF TextsKnown, TextKnown
  <1>10. v.script.artifact = v.script.claim /\ v.script.claim \in DOMAIN jobs
    BY <1>7, <1>9, Names DEF Passed
  <1>11. v.seo.artifact = v.seo.claim /\ v.seo.claim \in DOMAIN jobs
    BY <1>7, <1>9, Names DEF Passed
  <1>12. v.render.job \in DOMAIN jobs /\ jobs[v.render.job].from[1] = Frozen(m) /\ Sound(m)
    <2>1. v.render.job \in DOMAIN jobs
      BY <1>0, <1>1, <1>7 DEF MediaKnown
    <2> QED
      BY <1>5, <1>6, <1>7, <2>1 DEF RenderStatus, SameFences
  <1>13. Frozen(m) = Frozen(v)
    BY <1>6 DEF Frozen
  <1>14. v.render.claim = v.render.job /\ v.plan.status = "READY"
         /\ jobs[v.render.job].from[2] = v.plan.artifact
    BY <1>0, <1>1, <1>8, <1>12 DEF ChainKnown
  <1>15. v.plan.artifact = v.plan.claim /\ v.plan.claim \in DOMAIN jobs
    BY <1>9, <1>14, Names DEF Passed
  <1>16. /\ jobs[v.script.artifact].from = <<v.brief.artifact>>
         /\ jobs[v.plan.artifact].from = <<v.script.artifact>>
         /\ jobs[v.seo.artifact].from = <<v.script.artifact>>
    BY <1>0, <1>1, <1>8, <1>10, <1>11, <1>15 DEF ChainKnown
  <1>17. jobs[v.voice.audio].from[2] = v.script.artifact
    <2>1. /\ m.voice.hash = jobs[m.voice.audio].from[2]
          /\ a.script.artifact \in {None, m.voice.hash}
      BY <1>0, <1>3, <1>4, <1>6, <1>7, VoiceTracedFrom
    <2> QED
      BY <1>4, <1>6, <1>8, <1>10, <2>1
  <1>18. jobs[v.subs.vtt].from = <<v.voice.audio>>
    <2>1. m.subs.status = "READY"
      BY <1>12 DEF Sound
    <2>2. PICK voice, subs : voice = m.voice /\ subs = SubsOf(a, voice)
      OBVIOUS
    <2>3. subs.status = "READY" =>
              jobs[subs.vtt].from = <<subs.source>> /\ subs.source = voice.audio
      BY <1>0, <1>3, <2>2, SubsTracedFrom
    <2> QED
      BY <1>4, <1>6, <2>1, <2>2, <2>3
  <1>19. /\ v.score.of[1] = v.script.artifact
         /\ \A i \in {2, 3} : v.score.seen[i] # None => v.score.of[i] = Artifacts(v)[i]
    <2>1. \A i \in 1..3 : /\ v.score.seen[i] \in {None, Artifacts(v)[i]}
                         /\ v.score.seen[i] \in {None, v.score.of[i]}
      BY <1>0, <1>1, <1>7 DEF ChainKnown, ScoreInv, Honest
    <2>2. v.score.seen[1] # None
      BY <1>0, <1>1, <1>7, <1>8, <1>15 DEF ChainKnown
    <2>3. Artifacts(v)[1] = v.script.artifact
      BY DEF Artifacts
    <2> QED
      BY <2>1, <2>2, <2>3
  <1> QED
    BY <1>1, <1>6, <1>7, <1>12, <1>13, <1>14, <1>16, <1>17, <1>18, <1>19 DEF Current

\* A video that is submitted for review was made, in every part, from what it
\* has by then: the script from the brief, the plan and the SEO from the script,
\* the narration from the script, the subtitles from the narration, the render
\* from all of them and from the files of the scenes, and the report is of that
\* render; unless a request wrote something after the state it had checked was
\* gone (claimStage, reconcileMedia, reconcileRender, assertReadyForReview).
THEOREM VideoSpecSubmittedIsCurrent == Spec => SubmittedIsCurrent
  <1>1. VideoInit => CurrentInv /\ ScoreInv
    BY CurrentInit, ScoreInit
  <1>2. CurrentInv /\ ScoreInv /\ [Next]_vars => CurrentInv' /\ ScoreInv'
    BY CurrentStep, ScoreStep
  <1>3. CurrentInv /\ ScoreInv /\ [Next]_vars =>
            [itemStatus = "IN_PROGRESS" /\ itemStatus' = "REVIEW" /\ ~belated' => Current]_vars
    <2> SUFFICES ASSUME CurrentInv, ScoreInv, [Next]_vars,
                        itemStatus = "IN_PROGRESS", itemStatus' = "REVIEW", ~belated'
                 PROVE  Current
      OBVIOUS
    <2>1. itemStatus' # itemStatus
      OBVIOUS
    <2>2. PICK r \in Requests : SubmitForReview(r)
      <3>1. ASSUME NEW r \in Requests, Request(r) PROVE SubmitForReview(r)
        <4>1. ~\E what, sort, from, v : Claim(r, what, sort, from, v)
          BY <2>1 DEF Claim
        <4>2. ~\E v : Mutation(v)
          BY <2>1 DEF Mutation
        <4>3. ~\E k \in TextStages : ClaimStage(r, k)
          BY <4>1, Names DEF ClaimStage
        <4>4. /\ ~\E s \in Scenes : GenerateSceneImage(r, s)
              /\ ~\E p \in Profiles : GenerateVoice(r, p)
              /\ ~GenerateSubtitles(r) /\ ~SubmitRender(r)
          BY <4>1 DEF GenerateSceneImage, GenerateVoice, GenerateSubtitles, SubmitRender
        <4>5. ~SubmitJob(r) /\ ~RecordJob(r) /\ ~ScoreTexts(r) /\ ~Score(r) /\ ~ScoreRecord(r) /\ ~Abort(r)
          BY <2>1 DEF SubmitJob, RecordJob, ScoreTexts, Score, ScoreRecord, Abort
        <4>6. ~QaGather(r) /\ ~QaRecord(r) /\ ~ScoreCheck(r) /\ ~AssertReadyForReview(r)
          BY <4>2 DEF QaGather, QaRecord, ScoreCheck, AssertReadyForReview
        <4> QED
          BY <3>1, <4>3, <4>4, <4>5, <4>6 DEF Request
      <3>2. ~EnsureAiStagesFinalized /\ ~ApproveScript /\ ~\E s \in Scenes, u \in Uploads : AttachSceneAsset(s, u)
        BY <2>1 DEF EnsureAiStagesFinalized, ApproveScript, AttachSceneAsset, Mutation
      <3>3. ~OutsideStep
        BY <2>1 DEF OutsideStep, Reject, JobCompletes, JobFails, ArchiveGenerated, ChangeUpload, External
      <3> QED
        BY <2>1, <3>1, <3>2, <3>3 DEF Next, OutsideStep, vars
    <2>3. ~belated /\ GatesMet(video) /\ video = Finalized
      BY <2>2 DEF SubmitForReview
    <2> QED
      BY <2>3, SettledIsCurrent
  <1> QED
    BY <1>1, <1>2, <1>3, PTL DEF Spec, SubmittedIsCurrent

-----------------------------------------------------------------------------
(* MediaJobs: attempts that were given up go on, but one at most is past    *)
(* the claim, and a row that was completed is in no other hands than its    *)
(* author's; as long as nothing is disturbed, the one attempt that is not   *)
(* over is the engine's, and what it knows of the row is what it will       *)
(* report.                                                                  *)

LEMMA PerformerMoves ==
    ASSUME RowTypeOK, NEW n \in Attempts, NEW step, ThenDoes(n, step)
    PROVE  \A k \in Attempts : performer'[k] = IF k = n THEN step ELSE performer[k]
  BY DEF RowTypeOK, ThenDoes

Failing == {"revert", "reject", "expire"}

LEMMA FailingSteps ==
    /\ DOMAIN Outcomes = Failing
    /\ Outcomes["revert"] = "QUEUED" /\ Outcomes["reject"] = "FAILED" /\ Outcomes["expire"] = "TIMED_OUT"
    /\ Throwing["revert"] = "retry" /\ Throwing["reject"] = "fail" /\ Throwing["expire"] = "fail"
  BY DEF Outcomes, Throwing, Failing

\* Whatever the error and the kind of the job, the handler goes on to a write
\* that ends the attempt, and reverts only where another attempt may follow.
LEMMA ErrorsEnd ==
    ASSUME RowTypeOK, NEW n \in Attempts, ProviderError(n) \/ OtherError(n)
    PROVE  \E step \in Failing : ThenDoes(n, step) /\ (step = "revert" => Revertible(n))
  <1>1. CASE ProviderError(n)
    BY <1>1 DEF ProviderError, Failing
  <1>2. CASE OtherError(n)
    <2>1. CASE kind = "subtitle"
      BY <1>2, <2>1 DEF OtherError, Failing, Revertible
    <2>2. CASE kind = "render"
      BY <1>2, <2>2 DEF OtherError, Failing
    <2>3. CASE kind \notin {"subtitle", "render"}
      <3>1. ThenDoes(n, "reject") \/ ThenDoes(n, IF Revertible(n) THEN "revert" ELSE "expire")
        BY <1>2, <2>3 DEF OtherError
      <3> QED
        BY <3>1 DEF Failing
    <2> QED
      BY <2>1, <2>2, <2>3
  <1> QED
    BY <1>1, <1>2

\* What a step of the handler of attempt n is, seen from the row: the steps in
\* front of the claim, the claim, the ones behind it, and the end.
HandlerOf(n) ==
    \/ FindMediaJob(n) \/ ClaimMediaJob(n) \/ CheckInput(n) \/ Work(n)
    \/ CompleteMediaJob(n) \/ RecordFailure(n)
    \/ PerformerFails(n) \/ EndAttempt(n) \/ PerformerDies(n)

LEMMA RowTypeInit == MediaJobInit => RowTypeOK
  <1> SUFFICES ASSUME MediaJobInit PROVE RowTypeOK
    OBVIOUS
  <1>1. jobAttempts \in 0..MaxAttempt /\ author \in 0..MaxAttempt
    BY MediaJobAssumption DEF MediaJobInit
  <1>2. performer = [n \in Attempts |-> "none"]
    BY DEF MediaJobInit
  <1> QED
    BY <1>1, <1>2 DEF MediaJobInit, RowTypeOK

LEMMA RowTypeStep == RowTypeOK /\ [MediaJobNext]_mediaJobVars => RowTypeOK'
  <1> SUFFICES ASSUME RowTypeOK, [MediaJobNext]_mediaJobVars PROVE RowTypeOK'
    OBVIOUS
  <1> USE MediaJobAssumption, FailingSteps DEF RowTypeOK, jobRow, Terminal, Failing
  <1> DEFINE Steps == {"none", "find", "claim", "check", "work", "complete", "done"}
                        \cup DOMAIN Outcomes \cup {"succeed", "retry", "fail"}
  <1>0. \A n, step : ThenDoes(n, step) /\ step \in Steps => performer' \in [Attempts -> Steps]
    BY ZenonT(30) DEF ThenDoes
  <1>1. CASE BeginAttempt
    BY <1>0, <1>1 DEF BeginAttempt, Engine!Start
  <1>2. CASE AttemptGivenUp \/ QueueNotTold \/ AskedAgain
    BY <1>2 DEF AttemptGivenUp, QueueNotTold, AskedAgain, Engine!AutomaticRetry,
                Engine!Finish, Engine!DispatchFailure, Engine!ManualRetry, Engine!Settled
  <1>3. CASE \E n \in Attempts : HandlerOf(n)
    <2> PICK n \in Attempts : HandlerOf(n)
      BY <1>3
    <2>1. CASE FindMediaJob(n)
      BY <1>0, <2>1 DEF FindMediaJob
    <2>2. CASE ClaimMediaJob(n)
      BY <1>0, <2>2 DEF ClaimMediaJob
    <2>3. CASE CheckInput(n)
      BY <1>0, <2>3 DEF CheckInput
    <2>4. CASE Work(n)
      BY <1>0, <2>4, ErrorsEnd DEF Work
    <2>5. CASE CompleteMediaJob(n)
      <3>1. performer' \in [Attempts -> Steps]
        BY <1>0, <2>5, ErrorsEnd DEF CompleteMediaJob
      <3>2. n \in 0..MaxAttempt
        BY DEF Attempts
      <3> QED
        BY <2>5, <3>1, <3>2 DEF CompleteMediaJob
    <2>6. CASE RecordFailure(n)
      <3>1. performer[n] \in Failing
        BY <2>6 DEF RecordFailure, Writing
      <3>2. Outcomes[performer[n]] \in {"QUEUED", "FAILED", "TIMED_OUT"}
            /\ Throwing[performer[n]] \in {"retry", "fail"}
        BY <3>1
      <3> QED
        BY <1>0, <2>6, <3>2 DEF RecordFailure
    <2>7. CASE PerformerFails(n)
      <3>1. Writing(n) => Outcomes[performer[n]] \in {"QUEUED", "FAILED", "TIMED_OUT"}
        BY DEF Writing
      <3> QED
        BY <1>0, <2>7, <3>1 DEF PerformerFails
    <2>8. CASE EndAttempt(n)
      <3>1. /\ jobStatus' \in {"QUEUED", "RUNNING"} \cup Engine!Settled
            /\ jobAttempts' = jobAttempts /\ jobDead' \in BOOLEAN
        BY <2>8 DEF EndAttempt, Report, Engine!Finish, Engine!AutomaticRetry, Engine!Settled
      <3> QED
        BY <1>0, <2>8, <3>1 DEF EndAttempt
    <2>9. CASE PerformerDies(n)
      BY <1>0, <2>9 DEF PerformerDies
    <2> QED
      BY <2>1, <2>2, <2>3, <2>4, <2>5, <2>6, <2>7, <2>8, <2>9 DEF HandlerOf
  <1>4. CASE UNCHANGED mediaJobVars
    BY <1>4 DEF mediaJobVars
  <1> QED
    BY <1>1, <1>2, <1>3, <1>4 DEF MediaJobNext, HandlerOf

\* The claim is the only way past it, and an attempt past it goes from one of
\* its steps to the next or lets go.
LEMMA PastClaimMoves ==
    ASSUME RowTypeOK, RowClaimed, NEW n \in Attempts, NEW step, ThenDoes(n, step),
           step \in {"check", "work", "complete"} \cup Failing => PastClaim(n),
           row' = "QUEUED" => row = "QUEUED" \/ (PastClaim(n) /\ step \notin {"check", "work", "complete"} \cup Failing),
           row' = "COMPLETED" /\ step \in {"check", "work", "complete"} \cup Failing =>
               step \in Failing /\ author' = n,
           row' = "COMPLETED" => (row = "COMPLETED" /\ author' = author) \/ PastClaim(n)
    PROVE  RowClaimed'
  <1>1. \A k \in Attempts : performer'[k] = IF k = n THEN step ELSE performer[k]
    BY PerformerMoves
  <1>2. \A k \in Attempts : PastClaim(k)' <=>
            IF k = n THEN step \in {"check", "work", "complete"} \cup Failing ELSE PastClaim(k)
    BY <1>1, FailingSteps DEF PastClaim, Writing
  <1>3. \A k \in Attempts : Writing(k)' <=> IF k = n THEN step \in Failing ELSE Writing(k)
    BY <1>1, FailingSteps DEF Writing
  <1>4. \A j, k \in Attempts : PastClaim(j)' /\ PastClaim(k)' => j = k
    BY <1>2 DEF RowClaimed
  <1>5. row' = "QUEUED" => \A k \in Attempts : ~PastClaim(k)'
    BY <1>2 DEF RowClaimed
  <1>6. row' = "COMPLETED" => \A k \in Attempts : PastClaim(k)' => Writing(k)' /\ k = author'
    BY <1>2, <1>3 DEF RowClaimed
  <1> QED
    BY <1>4, <1>5, <1>6 DEF RowClaimed

LEMMA RowClaimedStep == RowIInv /\ [MediaJobNext]_mediaJobVars => RowClaimed'
  <1> SUFFICES ASSUME RowIInv, [MediaJobNext]_mediaJobVars PROVE RowClaimed'
    OBVIOUS
  <1>0. RowTypeOK /\ RowClaimed
    BY DEF RowIInv
  <1>1. CASE BeginAttempt
    <2>1. jobAttempts + 1 \in Attempts
      BY <1>0, <1>1, MediaJobAssumption DEF BeginAttempt, RowTypeOK, Attempts
    <2>2. \A k \in Attempts : performer'[k] = IF k = jobAttempts + 1 THEN "find" ELSE performer[k]
      BY <1>0, <1>1, <2>1, PerformerMoves DEF BeginAttempt
    <2>3. \A k \in Attempts : (PastClaim(k)' => PastClaim(k)) /\ (Writing(k) /\ PastClaim(k)' => Writing(k)')
      BY <2>2, FailingSteps DEF PastClaim, Writing, Failing
    <2> QED
      BY <1>0, <1>1, <2>3 DEF BeginAttempt, RowClaimed
  <1>2. CASE AttemptGivenUp \/ QueueNotTold \/ AskedAgain \/ UNCHANGED mediaJobVars
    <2>1. UNCHANGED <<row, performer, author>>
      BY <1>2 DEF AttemptGivenUp, QueueNotTold, AskedAgain, mediaJobVars
    <2> QED
      BY <1>0, <2>1 DEF RowClaimed, PastClaim, Writing
  <1>3. CASE \E n \in Attempts : HandlerOf(n)
    <2> PICK n \in Attempts : HandlerOf(n)
      BY <1>3
    <2> USE DEF Failing
    <2>0. /\ Writing(n) <=> performer[n] \in Failing
          /\ PastClaim(n) <=> performer[n] \in {"check", "work", "complete"} \cup Failing
          /\ row = "COMPLETED" /\ PastClaim(n) => performer[n] \in Failing /\ author = n
          /\ row = "QUEUED" => ~PastClaim(n)
      BY <1>0, FailingSteps DEF Writing, PastClaim, RowClaimed
    <2>1. CASE FindMediaJob(n)
      <3>1. PICK step \in {"succeed", "claim"} : ThenDoes(n, step)
        BY <2>1 DEF FindMediaJob
      <3> QED
        BY <1>0, <2>1, <3>1, PastClaimMoves DEF FindMediaJob
    <2>2. CASE ClaimMediaJob(n)
      <3>1. CASE Claimable /\ row' = "RUNNING" /\ ThenDoes(n, "check")
        <4>1. \A k \in Attempts : ~PastClaim(k)
          BY <1>0, <3>1 DEF RowClaimed, Claimable
        <4>2. \A k \in Attempts : performer'[k] = IF k = n THEN "check" ELSE performer[k]
          BY <1>0, <3>1, PerformerMoves
        <4>3. \A k \in Attempts : PastClaim(k)' => k = n
          BY <4>1, <4>2, FailingSteps DEF PastClaim, Writing
        <4> QED
          BY <3>1, <4>3 DEF RowClaimed
      <3>2. CASE ThenDoes(n, "succeed") /\ UNCHANGED row
        BY <1>0, <2>2, <3>2, PastClaimMoves DEF ClaimMediaJob
      <3> QED
        BY <2>2, <3>1, <3>2 DEF ClaimMediaJob
    <2>3. CASE CheckInput(n)
      <3>1. PICK step \in {"work", "reject", "fail", "retry"} : ThenDoes(n, step)
        BY <2>3 DEF CheckInput
      <3>2. performer[n] = "check" /\ UNCHANGED <<row, author>>
        BY <2>3 DEF CheckInput, Performs
      <3> QED
        BY <1>0, <2>0, <3>1, <3>2, PastClaimMoves
    <2>4. CASE Work(n)
      <3>1. PICK step \in {"complete"} \cup Failing : ThenDoes(n, step)
        BY <1>0, <2>4, ErrorsEnd DEF Work
      <3>2. performer[n] = "work" /\ UNCHANGED <<row, author>>
        BY <2>4 DEF Work, Performs
      <3> QED
        BY <1>0, <2>0, <3>1, <3>2, PastClaimMoves
    <2>5. CASE CompleteMediaJob(n)
      <3>1. PICK step \in {"succeed"} \cup Failing : ThenDoes(n, step)
        BY <1>0, <2>5, ErrorsEnd DEF CompleteMediaJob
      <3>2. performer[n] = "complete"
        BY <2>5 DEF CompleteMediaJob, Performs
      <3>3. (row' = "COMPLETED" /\ author' = n) \/ UNCHANGED <<row, author>>
        BY <2>5 DEF CompleteMediaJob
      <3> QED
        BY <1>0, <2>0, <3>1, <3>2, <3>3, PastClaimMoves
    <2>6. CASE RecordFailure(n)
      <3>1. performer[n] \in Failing /\ row' = Outcomes[performer[n]] /\ ThenDoes(n, Throwing[performer[n]])
        BY <2>0, <2>6 DEF RecordFailure
      <3>2. row' # "COMPLETED" /\ Throwing[performer[n]] \in {"retry", "fail"}
        BY <3>1, FailingSteps
      <3> QED
        BY <1>0, <2>0, <3>1, <3>2, PastClaimMoves
    <2>7. CASE PerformerFails(n)
      <3>1. ThenDoes(n, "retry") /\ author' = author
        BY <2>7 DEF PerformerFails
      <3>2. CASE Writing(n)
        <4>1. row' \in {row, Outcomes[performer[n]]} /\ Outcomes[performer[n]] # "COMPLETED"
          BY <2>0, <2>7, <3>2, FailingSteps DEF PerformerFails, Performs
        <4> QED
          BY <1>0, <2>0, <3>1, <3>2, <4>1, PastClaimMoves
      <3>3. CASE ~Writing(n)
        <4>1. row' = row \/ row' = "RUNNING"
          BY <2>7, <3>3 DEF PerformerFails
        <4> QED
          BY <1>0, <3>1, <4>1, PastClaimMoves
      <3> QED
        BY <3>2, <3>3
    <2>8. CASE EndAttempt(n) \/ PerformerDies(n)
      <3>1. ThenDoes(n, "done") /\ UNCHANGED <<row, author>>
        BY <2>8 DEF EndAttempt, PerformerDies
      <3> QED
        BY <1>0, <3>1, PastClaimMoves
    <2> QED
      BY <2>1, <2>2, <2>3, <2>4, <2>5, <2>6, <2>7, <2>8 DEF HandlerOf
  <1> QED
    BY <1>1, <1>2, <1>3 DEF MediaJobNext, HandlerOf

LEMMA HandlerBegan ==
    ASSUME NEW n \in Attempts, HandlerOf(n), RowTypeOK
    PROVE  /\ performer[n] \notin {"none", "done"}
           /\ \E step : ThenDoes(n, step)
           /\ jobAttempts' = jobAttempts
  <1>1. performer[n] \notin {"none", "done"}
    BY FailingSteps DEF HandlerOf, FindMediaJob, ClaimMediaJob, CheckInput, Work, CompleteMediaJob,
       RecordFailure, PerformerFails, EndAttempt, PerformerDies, Performs, Writing, Failing
  <1>2. CASE EndAttempt(n)
    <2>1. jobAttempts' = jobAttempts
      BY <1>2 DEF EndAttempt, Report, Engine!Finish, Engine!AutomaticRetry, jobRow
    <2> QED
      BY <1>1, <1>2, <2>1 DEF EndAttempt
  <1>3. CASE Work(n) \/ CompleteMediaJob(n)
    BY <1>1, <1>3, ErrorsEnd DEF Work, CompleteMediaJob, jobRow
  <1>4. CASE ~EndAttempt(n) /\ ~Work(n) /\ ~CompleteMediaJob(n)
    <2>1. jobAttempts' = jobAttempts
      BY <1>4 DEF HandlerOf, FindMediaJob, ClaimMediaJob, CheckInput, RecordFailure,
                  PerformerFails, PerformerDies, jobRow
    <2>2. \E step : ThenDoes(n, step)
      BY <1>4 DEF HandlerOf, FindMediaJob, ClaimMediaJob, CheckInput, RecordFailure,
                  PerformerFails, PerformerDies
    <2> QED
      BY <1>1, <2>1, <2>2
  <1> QED
    BY <1>2, <1>3, <1>4

LEMMA NoneAheadStep == RowIInv /\ [MediaJobNext]_mediaJobVars => NoneAhead'
  <1> SUFFICES ASSUME RowIInv, [MediaJobNext]_mediaJobVars PROVE NoneAhead'
    OBVIOUS
  <1>0. RowTypeOK /\ NoneAhead
    BY DEF RowIInv
  <1>1. CASE BeginAttempt
    <2>1. /\ jobAttempts + 1 \in Attempts /\ jobAttempts' = jobAttempts + 1
      BY <1>0, <1>1, MediaJobAssumption DEF BeginAttempt, RowTypeOK, Attempts, Engine!Start
    <2>2. \A k \in Attempts : performer'[k] = IF k = jobAttempts + 1 THEN "find" ELSE performer[k]
      BY <1>0, <1>1, <2>1, PerformerMoves DEF BeginAttempt
    <2>3. \A k \in Attempts : k > jobAttempts + 1 => k > jobAttempts /\ k # jobAttempts + 1
      BY <1>0, MediaJobAssumption DEF Attempts, RowTypeOK
    <2> QED
      BY <1>0, <2>1, <2>2, <2>3 DEF NoneAhead
  <1>2. CASE AttemptGivenUp \/ QueueNotTold \/ AskedAgain \/ UNCHANGED mediaJobVars
    <2>1. UNCHANGED <<jobAttempts, performer>>
      BY <1>2 DEF AttemptGivenUp, QueueNotTold, AskedAgain, mediaJobVars, Engine!AutomaticRetry,
                  Engine!Finish, Engine!DispatchFailure, Engine!ManualRetry
    <2> QED
      BY <1>0, <2>1 DEF NoneAhead
  <1>3. CASE \E n \in Attempts : HandlerOf(n)
    <2> PICK n \in Attempts : HandlerOf(n)
      BY <1>3
    <2>1. performer[n] # "none" /\ jobAttempts' = jobAttempts
      BY <1>0, HandlerBegan
    <2>2. \A k \in Attempts : k # n => performer'[k] = performer[k]
      BY <1>0, HandlerBegan, PerformerMoves
    <2> QED
      BY <1>0, <2>1, <2>2 DEF NoneAhead
  <1> QED
    BY <1>1, <1>2, <1>3 DEF MediaJobNext, HandlerOf

-----------------------------------------------------------------------------
\* As long as nothing is disturbed, the attempt that is not over is the one the
\* engine runs: a step of its handler has only to keep what it knows.
LEMMA RowKnownMoves ==
    ASSUME RowTypeOK, RowFollows, NEW n \in Attempts, performer[n] \notin {"none", "done"},
           NEW step, ThenDoes(n, step), UNCHANGED jobRow, RowKnown(n, step)'
    PROVE  RowFollows'
  <1>1. \A k \in Attempts : performer'[k] = IF k = n THEN step ELSE performer[k]
    BY PerformerMoves
  <1>2. /\ jobStatus = "RUNNING" /\ jobAttempts = n
        /\ \A k \in Attempts : k # n => performer[k] \in {"none", "done"}
    BY DEF RowFollows
  <1>3. jobStatus' = "RUNNING" /\ jobAttempts' = n /\ performer'[n] = step
    BY <1>1, <1>2 DEF jobRow
  <1>4. RowKnown(jobAttempts, performer[jobAttempts])'
    BY <1>3 DEF RowKnown, Revertible
  <1> QED
    BY <1>1, <1>2, <1>3, <1>4 DEF RowFollows, Engine!Settled

LEMMA RowFollowsHandler ==
    ASSUME RowIInv, ~disturbed, ~disturbed', NEW n \in Attempts, HandlerOf(n)
    PROVE  RowFollows'
  <1>0. RowTypeOK /\ RowFollows /\ RowClaimed
    BY DEF RowIInv
  <1>1. performer[n] \notin {"none", "done"}
    BY <1>0, HandlerBegan
  <1>2. /\ jobStatus = "RUNNING" /\ jobAttempts = n /\ RowKnown(n, performer[n])
        /\ \A k \in Attempts : k # n => performer[k] \in {"none", "done"}
    BY <1>0, <1>1 DEF RowFollows
  <1>3. CASE FindMediaJob(n)
    <2>1. PICK step : step = IF row \in Terminal THEN "succeed" ELSE "claim"
      OBVIOUS
    <2>2. ThenDoes(n, step) /\ AtRest /\ UNCHANGED <<jobRow, kind, row, refused>>
      BY <1>2, <1>3, <2>1 DEF FindMediaJob, RowKnown, Performs
    <2>3. RowKnown(n, step)'
      BY <2>1, <2>2 DEF RowKnown, AtRest, LeftRunning
    <2> QED
      BY <1>0, <1>1, <2>2, <2>3, RowKnownMoves
  <1>4. CASE ClaimMediaJob(n)
    BY <1>0, <1>1, <1>2, <1>4, RowKnownMoves
       DEF ClaimMediaJob, Claimable, RowKnown, LeftRunning, Performs
  <1>5. CASE CheckInput(n)
    <2>1. row = "RUNNING" /\ UNCHANGED <<jobRow, kind, row>>
      BY <1>2, <1>5 DEF CheckInput, RowKnown, Performs
    <2>2. PICK step \in {"work", "reject", "fail", "retry"} :
             /\ ThenDoes(n, step)
             /\ step \in {"fail", "retry"} => kind # "subtitle" /\ refused'
      BY <1>5 DEF CheckInput
    <2>3. RowKnown(n, step)'
      BY <2>1, <2>2 DEF RowKnown, LeftRunning
    <2> QED
      BY <1>0, <1>1, <2>1, <2>2, <2>3, RowKnownMoves
  <1>6. CASE Work(n)
    <2>1. row = "RUNNING" /\ UNCHANGED <<jobRow, kind, row>>
      BY <1>2, <1>6 DEF Work, RowKnown, Performs
    <2>2. PICK step \in {"complete"} \cup Failing :
             ThenDoes(n, step) /\ (step = "revert" => Revertible(n))
      BY <1>0, <1>6, ErrorsEnd DEF Work, Failing
    <2>3. RowKnown(n, step)'
      BY <2>1, <2>2 DEF RowKnown, Failing, Revertible
    <2> QED
      BY <1>0, <1>1, <2>1, <2>2, <2>3, RowKnownMoves
  <1>7. CASE CompleteMediaJob(n)
    <2>1. UNCHANGED <<jobRow, kind>>
      BY <1>7 DEF CompleteMediaJob
    <2>2. PICK step \in {"succeed"} \cup Failing :
             /\ ThenDoes(n, step) /\ (step = "revert" => Revertible(n))
             /\ step = "succeed" => row' = "COMPLETED"
      BY <1>0, <1>7, ErrorsEnd DEF CompleteMediaJob, Failing
    <2>3. RowKnown(n, step)'
      BY <2>1, <2>2 DEF RowKnown, Failing, Revertible, Terminal
    <2> QED
      BY <1>0, <1>1, <2>1, <2>2, <2>3, RowKnownMoves
  <1>8. CASE RecordFailure(n)
    <2>1. PICK step : step = Throwing[performer[n]]
      OBVIOUS
    <2>2. ThenDoes(n, step) /\ row' = Outcomes[performer[n]] /\ UNCHANGED <<jobRow, kind>>
      BY <1>8, <2>1 DEF RecordFailure
    <2>3. performer[n] \in Failing
      BY <1>8, FailingSteps DEF RecordFailure, Writing
    <2>4. RowKnown(n, step)'
      <3>1. CASE performer[n] = "revert"
        <4>1. Revertible(n) /\ step = "retry" /\ row' = "QUEUED"
          BY <1>2, <2>1, <2>2, <3>1, FailingSteps DEF RowKnown
        <4> QED
          BY <2>2, <4>1 DEF RowKnown, Revertible
      <3>2. CASE performer[n] # "revert"
        <4>1. step = "fail" /\ row' \in {"FAILED", "TIMED_OUT"}
          BY <2>1, <2>2, <2>3, <3>2, FailingSteps DEF Failing
        <4> QED
          BY <4>1 DEF RowKnown, Terminal
      <3> QED
        BY <3>1, <3>2
    <2> QED
      BY <1>0, <1>1, <2>2, <2>4, RowKnownMoves
  <1>9. CASE PerformerFails(n) \/ PerformerDies(n)
    BY <1>9 DEF PerformerFails, PerformerDies
  <1>10. CASE EndAttempt(n)
    <2>1. Report(n) /\ UNCHANGED <<row, kind, refused>> /\ performer[n] \in {"succeed", "retry", "fail"}
      BY <1>2, <1>10 DEF EndAttempt
    <2>2. \A k \in Attempts : performer'[k] \in {"none", "done"}
      BY <1>0, <1>2, <1>10, PerformerMoves DEF EndAttempt
    <2>3. CASE performer[n] = "retry" /\ n < MediaBudget
      <3>1. jobStatus' = "QUEUED" /\ AtRest'
        BY <1>2, <2>1, <2>3
           DEF Report, Performs, RowKnown, AtRest, LeftRunning, Engine!AutomaticRetry
      <3> QED
        BY <2>2, <3>1 DEF RowFollows, Engine!Settled
    <2>4. CASE performer[n] = "retry" /\ ~(n < MediaBudget)
      <3>1. jobStatus' = "FAILED" /\ ((row = "QUEUED" /\ kind = "subtitle") \/ LeftRunning)
        BY <1>2, <2>1, <2>4 DEF Report, Performs, RowKnown, Revertible
      <3> QED
        BY <2>1, <2>2, <3>1 DEF RowFollows, LeftRunning
    <2>5. CASE performer[n] # "retry"
      <3>1. jobStatus' \in {"COMPLETED", "FAILED"} /\ (row \in Terminal \/ LeftRunning)
        BY <1>2, <2>1, <2>5 DEF Report, Performs, RowKnown
      <3> QED
        BY <2>1, <2>2, <3>1 DEF RowFollows, LeftRunning
    <2> QED
      BY <2>3, <2>4, <2>5
  <1> QED
    BY <1>3, <1>4, <1>5, <1>6, <1>7, <1>8, <1>9, <1>10 DEF HandlerOf

LEMMA RowFollowsStep == RowIInv /\ [MediaJobNext]_mediaJobVars /\ ~disturbed' => RowFollows'
  <1> SUFFICES ASSUME RowIInv, [MediaJobNext]_mediaJobVars, ~disturbed' PROVE RowFollows'
    OBVIOUS
  <1>1. RowTypeOK /\ NoneAhead
    BY DEF RowIInv
  <1>2. ~disturbed
    BY <1>1 DEF MediaJobNext, BeginAttempt, AttemptGivenUp, QueueNotTold, AskedAgain, FindMediaJob,
           ClaimMediaJob, CheckInput, Work, CompleteMediaJob, RecordFailure, PerformerFails,
           EndAttempt, PerformerDies, mediaJobVars
  <1>3. RowFollows
    BY <1>2 DEF RowIInv
  <1>4. CASE BeginAttempt
    <2>1. /\ jobAttempts + 1 \in Attempts /\ jobAttempts' = jobAttempts + 1
          /\ jobStatus = "QUEUED" /\ jobStatus' = "RUNNING"
          /\ UNCHANGED <<kind, row, refused>>
      BY <1>1, <1>4, MediaJobAssumption DEF BeginAttempt, RowTypeOK, Attempts, Engine!Start
    <2>2. \A k \in Attempts : performer'[k] = IF k = jobAttempts + 1 THEN "find" ELSE performer[k]
      BY <1>1, <1>4, <2>1, PerformerMoves DEF BeginAttempt
    <2>3. \A k \in Attempts : performer[k] \in {"none", "done"}
      BY <1>3, <2>1 DEF RowFollows
    <2>4. performer'[jobAttempts'] = "find" /\ AtRest'
      BY <1>3, <2>1, <2>2 DEF RowFollows, AtRest, LeftRunning
    <2>5. RowKnown(jobAttempts, performer[jobAttempts])'
      BY <2>4 DEF RowKnown
    <2> QED
      BY <2>1, <2>2, <2>3, <2>5 DEF RowFollows, Engine!Settled
  <1>5. CASE AttemptGivenUp \/ QueueNotTold
    BY <1>5 DEF AttemptGivenUp, QueueNotTold
  <1>6. CASE AskedAgain
    <2>1. /\ jobStatus \in {"FAILED", "TIMED_OUT"} /\ jobStatus' = "QUEUED"
          /\ UNCHANGED <<kind, row, refused, performer>>
      BY <1>6 DEF AskedAgain, Engine!ManualRetry
    <2>2. AtRest /\ \A k \in Attempts : performer[k] \in {"none", "done"}
      BY <1>3, <2>1 DEF RowFollows, Engine!Settled, AtRest
    <2> QED
      BY <2>1, <2>2 DEF RowFollows, Engine!Settled, AtRest, LeftRunning
  <1>7. CASE \E n \in Attempts : HandlerOf(n)
    BY <1>2, <1>7, RowFollowsHandler
  <1>8. CASE UNCHANGED mediaJobVars
    BY <1>3, <1>8 DEF mediaJobVars, RowFollows, RowKnown, AtRest, LeftRunning, Revertible
  <1> QED
    BY <1>4, <1>5, <1>6, <1>7, <1>8 DEF MediaJobNext, HandlerOf

LEMMA RowInitial == MediaJobInit => RowIInv
  <1> SUFFICES ASSUME MediaJobInit PROVE RowIInv
    OBVIOUS
  <1>1. \A n \in Attempts : performer[n] = "none"
    BY DEF MediaJobInit
  <1>2. RowClaimed /\ NoneAhead
    BY <1>1, FailingSteps DEF MediaJobInit, RowClaimed, NoneAhead, PastClaim, Writing, Failing
  <1>3. RowFollows
    BY <1>1 DEF MediaJobInit, RowFollows, AtRest, Engine!Settled
  <1> QED
    BY <1>2, <1>3, RowTypeInit DEF RowIInv

LEMMA RowInvariant == MediaJobSpec => []RowIInv
  <1>1. RowIInv /\ [MediaJobNext]_mediaJobVars => RowIInv'
    BY RowTypeStep, RowClaimedStep, NoneAheadStep, RowFollowsStep DEF RowIInv
  <1> QED
    BY <1>1, RowInitial, PTL DEF MediaJobSpec

\* A media job is not left behind by its background job: when that is over and
\* nothing disturbed it, the row has an outcome, or is one of the two exceptions
\* the code makes, for every budget and every number of manual retries.
THEOREM MediaSpecDriven == MediaJobSpec => []MediaDriven
  <1>1. RowIInv => MediaDriven
    BY DEF RowIInv, RowFollows, MediaDriven, JobOver, Engine!Settled, LeftRunning
  <1> QED
    BY <1>1, RowInvariant, PTL

\* Writes by id of attempts that were given up do not overwrite a result: only the
\* attempt that completed the row, and was not told so, writes it once more.
THEOREM MediaSpecCompletedStands == MediaJobSpec => CompletedStands
  <1>1. ASSUME RowIInv, MediaJobNext, row = "COMPLETED", row' # "COMPLETED"
        PROVE  author # 0 /\ Writing(author) /\ performer'[author] # performer[author]
    <2>0. RowTypeOK /\ RowClaimed
      BY <1>1 DEF RowIInv
    <2>1. PICK n \in Attempts : HandlerOf(n)
      BY <1>1 DEF MediaJobNext, HandlerOf, BeginAttempt, AttemptGivenUp, QueueNotTold, AskedAgain
    <2>2. RecordFailure(n) \/ PerformerFails(n)
      BY <1>1, <2>1 DEF HandlerOf, FindMediaJob, ClaimMediaJob, Claimable, CheckInput, Work,
         CompleteMediaJob, EndAttempt, PerformerDies
    <2>3. Writing(n)
      BY <1>1, <2>2 DEF RecordFailure, PerformerFails, Claimable
    <2>4. n = author /\ n # 0
      BY <1>1, <2>0, <2>3 DEF RowClaimed, PastClaim, Attempts
    <2>5. performer[n] \in Failing
      BY <2>3, FailingSteps DEF Writing
    <2>6. PICK step : ThenDoes(n, step) /\ step \in {"retry", "fail"}
      BY <2>2, <2>5, FailingSteps DEF RecordFailure, PerformerFails, Failing
    <2>7. performer'[n] = step
      BY <2>0, <2>6, PerformerMoves
    <2> QED
      BY <2>3, <2>4, <2>5, <2>6, <2>7 DEF Failing
  <1>2. RowIInv /\ [MediaJobNext]_mediaJobVars =>
          [row = "COMPLETED" /\ row' # "COMPLETED" =>
             author # 0 /\ Writing(author) /\ performer'[author] # performer[author]]_mediaJobVars
    BY <1>1
  <1> QED
    BY <1>2, RowInvariant, PTL DEF MediaJobSpec, CompletedStands
=============================================================================
