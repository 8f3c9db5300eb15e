----------------------------- MODULE Memberships -----------------------------
(* One workspace: its owner, its memberships and its invitations.            *)
(* MembersService, InvitationsService, WorkspacesService.transferOwnership   *)
(* and the activation branch of AuthService.resetPassword.                   *)
(*                                                                           *)
(* MembersService reads the owner, decides, and updates the membership by    *)
(* id: the update does not look at the owner again. transferOwnership and    *)
(* accept are transactions that begin with a row lock; who holds it is the   *)
(* request at the step after it. A write to a locked row waits.              *)
(*                                                                           *)
(* Left out: who calls (any Administrator or Owner may invite, update and    *)
(* remove), the lifetimes of invitations and activation links, mail, audit   *)
(* and caches. Addresses do not change hands: a user stands for an address.  *)
EXTENDS Naturals, ApiRequests

CONSTANTS
    Users,
    Founder,       \* who created the workspace
    Invitations    \* bound: rows of workspace_invitations, in the order of creation

ASSUME MembershipAssumption == Founder \in Users /\ Invitations \subseteq Nat

VARIABLES
    owner,       \* workspaces.owner_id
    member,      \* workspace_members: the role and the status of each user's row
    invitation,  \* workspace_invitations: status, invited user, whether bound, role
    account,     \* users.status; NONE where no account has the address
    link         \* the users with a valid activation link

memberTables == <<owner, member, invitation, account, link>>
memberVars   == <<memberTables, req>>

\* ASSIGNABLE_ROLE_NAMES, of which only Administrator makes a difference.
AnyRole    == {"Owner", "Administrator", "Editor"}   \* Slip: Owner may be assigned
Assignable == {"Administrator", "Editor"}

Row(role, status) == [role |-> role, status |-> status]
NoMember     == Row("none", "NONE")
\* Nothing reads the other columns of an invitation that is not pending.
Closed(status) == [status |-> status, user |-> Founder, bound |-> FALSE, role |-> "none"]
NoInvitation  == Closed("NONE")

\* A user is a stranger without an account, one whom another workspace has
\* invited, a registered user, or an Administrator.
MemberInit ==
    /\ owner = Founder
    /\ member \in {[u \in Users |-> IF u = Founder THEN Row("Owner", "ACTIVE")
                                    ELSE IF u \in admins THEN Row("Administrator", "ACTIVE")
                                    ELSE NoMember] : admins \in SUBSET (Users \ {Founder})}
    /\ account \in {f \in [Users -> {"NONE", "PENDING", "ACTIVE"}] :
                      \A u \in Users : member[u].status = "ACTIVE" => f[u] = "ACTIVE"}
    /\ link = {u \in Users : account[u] = "PENDING"}
    /\ invitation = [i \in Invitations |-> NoInvitation]
    /\ req = [r \in Requests |-> Idle]

-----------------------------------------------------------------------------
Refused(r) == Done(r) /\ UNCHANGED memberTables

\* The requests that hold the lock of the workspace, and of an invitation.
Transferring == {r \in Requests : At(r, "transfer")}
Accepting(i) == {r \in Requests : req[r].pc \in {"accept", "join", "wait"} /\ req[r].row = i}

-----------------------------------------------------------------------------
(* MembersService: updateMember, remove, leave                               *)

\* The row is found and its user is not the owner, who is remembered.
NotOwner(u) == member[u].status # "NONE" /\ u # owner

MemberRead(r, u, label) ==
    /\ NotOwner(u)
    /\ Begin(r, [pc |-> label, user |-> u, seen |-> owner])
    /\ UNCHANGED memberTables

UpdateMemberRead(r, u) == \E label \in {"role", "status"} : MemberRead(r, u, label)
RemoveMemberRead(r, u) == MemberRead(r, u, "remove")
LeaveRead(r, u)        == member[u].status = "ACTIVE" /\ MemberRead(r, u, "remove")

\* A request may name a role, a status, or both.
UpdateRole(r) ==
    /\ At(r, "role")
    /\ \E role \in Assignable : member' = [member EXCEPT ![req[r].user].role = role]
    /\ Done(r) \/ Goto(r, "status")
    /\ UNCHANGED <<owner, invitation, account, link>>

\* ACTIVE or SUSPENDED, whatever the status was.
UpdateStatus(r) ==
    /\ At(r, "status")
    /\ \E s \in {"ACTIVE", "SUSPENDED"} : member' = [member EXCEPT ![req[r].user].status = s]
    /\ Done(r) /\ UNCHANGED <<owner, invitation, account, link>>

RemoveMember(r) ==
    /\ At(r, "remove")
    /\ member' = [member EXCEPT ![req[r].user].status = "REMOVED"]
    /\ Done(r) /\ UNCHANGED <<owner, invitation, account, link>>

\* resendActivation: a new link replaces the old one.
ResendActivation(u) ==
    /\ member[u].status = "PENDING_ACTIVATION"
    /\ link' = link \cup {u}
    /\ UNCHANGED <<owner, member, invitation, account, req>>

-----------------------------------------------------------------------------
(* transferOwnership                                                         *)

\* Locks the workspace row; the caller is the owner it finds there.
TransferLock(r, to) ==
    /\ Transferring = {} /\ to # owner
    /\ Begin(r, [pc |-> "transfer", user |-> to, seen |-> owner])
    /\ UNCHANGED memberTables

\* The two memberships, locked and read together.
MayTransfer(from, to) ==
    member[from].status = "ACTIVE" /\ member[to] = Row("Administrator", "ACTIVE")

OwnersIn(rows)  == {u \in Users : rows[u] = Row("Owner", "ACTIVE")}
SwapRoles(rows, from, to) ==
    [rows EXCEPT ![from].role = "Administrator", ![to].role = "Owner"]

TransferCommit(r) ==
    LET from == req[r].seen
        to   == req[r].user
        rows == SwapRoles(member, from, to)
    IN  /\ At(r, "transfer")
        /\ \/ /\ MayTransfer(from, to)
              /\ OwnersIn(rows) = {to}      \* the post-condition
              /\ owner' = to /\ member' = rows
              /\ Done(r) /\ UNCHANGED <<invitation, account, link>>
           \/ ~(MayTransfer(from, to) /\ OwnersIn(rows) = {to}) /\ Refused(r)

-----------------------------------------------------------------------------
(* InvitationsService: invite, revoke                                        *)

\* Whoever is an ACTIVE member is not invited; an ACTIVE account is bound.
InviteRead(r, u) ==
    /\ member[u].status # "ACTIVE"
    /\ Begin(r, [pc |-> "invite", user |-> u, bound |-> account[u] = "ACTIVE"])
    /\ UNCHANGED memberTables

PendingFor(u) == {i \in Invitations : invitation[i].status = "PENDING" /\ invitation[i].user = u}

\* Expires what is still pending for the address and creates the new row; the
\* partial unique index refuses the second of two requests at the same time.
Invite(r) ==
    LET u == req[r].user
    IN  /\ At(r, "invite")
        /\ \A i \in PendingFor(u) : Accepting(i) = {}
        /\ \E new \in Invitations, role \in Assignable :
              /\ \A i \in Invitations : invitation[i].status = "NONE" <=> i >= new
              /\ invitation' = [i \in Invitations |->
                    IF i = new THEN [status |-> "PENDING", user |-> u, bound |-> req[r].bound, role |-> role]
                    ELSE IF i \in PendingFor(u) THEN Closed("EXPIRED")
                    ELSE invitation[i]]
        /\ Done(r) /\ UNCHANGED <<owner, member, account, link>>

RevokeRead(r, i) ==
    /\ invitation[i].status = "PENDING"
    /\ Begin(r, [pc |-> "revoke", row |-> i])
    /\ UNCHANGED memberTables

\* By id: it also hits an invitation that was accepted in between.
Revoke(r) ==
    LET i == req[r].row
    IN  /\ At(r, "revoke") /\ Accepting(i) = {}
        /\ invitation' = [invitation EXCEPT ![i] = Closed("REVOKED")]
        /\ Done(r) /\ UNCHANGED <<owner, member, account, link>>

-----------------------------------------------------------------------------
(* accept: one transaction, which holds the lock of the invitation           *)

NotLocked(i) == TRUE             \* Slip: a plain SELECT
RowLock(i)   == Accepting(i) = {}

AcceptLock(r, i) ==
    /\ RowLock(i) /\ invitation[i].status = "PENDING"
    /\ Begin(r, [pc |-> "accept", row |-> i])
    /\ UNCHANGED memberTables

\* Case A, the bound account, and the account that has become ACTIVE since, join
\* at once; otherwise the user is created or reused and is to be activated. A
\* link that is still valid serves for this membership as well.
AcceptBranch(r) ==
    LET u == invitation[req[r].row].user
    IN  /\ At(r, "accept")
        /\ \/ account[u] = "ACTIVE" /\ Goto(r, "join")
           \/ /\ account[u] # "ACTIVE" /\ ~invitation[req[r].row].bound
              /\ req' = [req EXCEPT ![r] = [pc |-> "wait", row |-> req[r].row,
                                            found |-> account[u], linked |-> u \in link]]
        /\ UNCHANGED memberTables

\* joinAsActive: inserts the membership, or overwrites the one there is.
Join(r) ==
    LET i == req[r].row
    IN  /\ At(r, "join")
        /\ member' = [member EXCEPT ![invitation[i].user] = Row(invitation[i].role, "ACTIVE")]
        /\ invitation' = [invitation EXCEPT ![i] = Closed("ACCEPTED")]
        /\ Done(r) /\ UNCHANGED <<owner, account, link>>

\* The inserts meet the unique constraints on the address and on the membership.
\* The link is looked for some time after the account was.
Insertable(r, u) ==
    member[u].status = "NONE" /\ (req[r].found = "NONE" => account[u] = "NONE")

AwaitActivation(r) ==
    LET i == req[r].row
        u == invitation[i].user
    IN  /\ At(r, "wait")
        /\ \/ /\ Insertable(r, u)
              /\ member' = [member EXCEPT ![u] = Row(invitation[i].role, "PENDING_ACTIVATION")]
              /\ account' = [account EXCEPT ![u] = IF @ = "NONE" THEN "PENDING" ELSE @]
              /\ \E valid \in {req[r].linked, u \in link} :
                    link' = IF valid THEN link ELSE link \cup {u}
              /\ invitation' = [invitation EXCEPT ![i] = Closed("ACCEPTED")]
              /\ Done(r) /\ UNCHANGED owner
           \/ ~Insertable(r, u) /\ Refused(r)

\* resetPassword with an activation link: the account, and all its memberships
\* that wait for it, become ACTIVE in one transaction.
Activate(u) ==
    /\ u \in link
    /\ link' = link \ {u}
    /\ account' = [account EXCEPT ![u] = "ACTIVE"]
    /\ member' = IF member[u].status = "PENDING_ACTIVATION"
                 THEN [member EXCEPT ![u].status = "ACTIVE"] ELSE member
    /\ UNCHANGED <<owner, invitation, req>>

-----------------------------------------------------------------------------
\* The process dies, or the database aborts the transaction.
MemberAbort(r) == ~At(r, "idle") /\ Refused(r)

MemberNext ==
    \/ \E r \in Requests :
          \/ UpdateRole(r) \/ UpdateStatus(r) \/ RemoveMember(r) \/ TransferCommit(r)
          \/ Invite(r) \/ Revoke(r) \/ AcceptBranch(r) \/ Join(r) \/ AwaitActivation(r)
          \/ MemberAbort(r)
          \/ \E u \in Users : \/ UpdateMemberRead(r, u) \/ RemoveMemberRead(r, u) \/ LeaveRead(r, u)
                              \/ TransferLock(r, u) \/ InviteRead(r, u)
          \/ \E i \in Invitations : RevokeRead(r, i) \/ AcceptLock(r, i)
    \/ \E u \in Users : ResendActivation(u) \/ Activate(u)

MemberSpec == MemberInit /\ [][MemberNext]_memberVars

-----------------------------------------------------------------------------
(* Properties                                                                *)

\* transferOwnership's post-condition, "workspaces.owner_id matches the sole
\* ACTIVE Owner membership", as far as every other request keeps it: the role of
\* Owner never rests with anybody but the owner, and the owner's membership is
\* demoted, suspended or removed only by a request that had read another owner
\* before the transfer, or when the owner accepts an invitation from before it.
TookBack(r) ==
    \/ req[r].pc \in {"role", "status", "remove"} /\ req[r].user = owner /\ req[r].seen # owner
    \/ At(r, "join") /\ invitation[req[r].row].user = owner
OwnerStands ==
    [][ /\ \A u \in Users : member'[u].role = "Owner" => u = owner'
        /\ member[owner] = Row("Owner", "ACTIVE") /\ member'[owner'] # Row("Owner", "ACTIVE")
              => \E r \in Requests : req'[r] # req[r] /\ TookBack(r) ]_memberVars

\* An invitation admits once: whoever is about to admit somebody holds the only
\* acceptance under way, of an invitation that is still pending, whichever
\* acceptances, revocations and new invitations race.
AdmittedOnce ==
    \A r \in Requests : req[r].pc \in {"accept", "join", "wait"} =>
        /\ invitation[req[r].row].status = "PENDING"
        /\ Accepting(req[r].row) = {r}

-----------------------------------------------------------------------------
(* The inductive invariant behind both                                       *)

MemberRoles    == Assignable \cup {"Owner", "none"}
MemberStatuses == {"NONE", "PENDING_ACTIVATION", "ACTIVE", "SUSPENDED", "REMOVED"}
AccountStatuses == {"NONE", "PENDING", "ACTIVE"}
MemberCalls ==
         [pc : {"role", "status", "remove", "transfer"}, user : Users, seen : Users]
    \cup [pc : {"invite"}, user : Users, bound : BOOLEAN]
    \cup [pc : {"revoke", "accept", "join"}, row : Invitations]
    \cup [pc : {"wait"}, row : Invitations, found : AccountStatuses, linked : BOOLEAN]

MemberTypeOK ==
    /\ owner \in Users /\ link \subseteq Users /\ account \in [Users -> AccountStatuses]
    /\ member \in [Users -> [role : MemberRoles, status : MemberStatuses]]
    /\ invitation \in [Invitations ->
           [status : {"NONE", "PENDING", "EXPIRED", "REVOKED", "ACCEPTED"},
            user : Users, bound : BOOLEAN, role : MemberRoles]]
    /\ req \in [Requests -> MemberCalls \cup {Idle}]

OwnersRole  == \A u \in Users : member[u].role = "Owner" => u = owner
InvitedRole == \A i \in Invitations :
    invitation[i].status = "PENDING" => invitation[i].role \in Assignable

\* The lock of the workspace row keeps the owner where the transfer found it;
\* the other requests have only read it.
OwnerLocked == \A r \in Requests : At(r, "transfer") =>
    req[r].seen = owner /\ req[r].user # owner /\ Transferring = {r}
AnotherSeen == \A r \in Requests : req[r].pc \in {"role", "status", "remove"} =>
    req[r].user # req[r].seen

MemberIInv == /\ MemberTypeOK /\ OwnersRole /\ InvitedRole /\ OwnerLocked /\ AnotherSeen
              /\ AdmittedOnce
=============================================================================
