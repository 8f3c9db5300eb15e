----------------------------- MODULE MediaAssets ----------------------------
(* The versions of one media asset: MediaAssetsService of the API, and the   *)
(* MediaAssetWriterService with which the workers add generated versions.    *)
(*                                                                           *)
(* A version is inserted PENDING_UPLOAD with the number after the version it *)
(* is to replace, claimed (VERIFYING) under an attempt id, verified outside  *)
(* any transaction, and finalized: the old version is archived, then the new *)
(* one activated. (asset_group_id, version_number) is unique over all rows,  *)
(* so a version is named by its number here; the version it replaces is the  *)
(* one before it.                                                            *)
(*                                                                           *)
(* Claims, finalizations and new versions lock every row they write at their *)
(* start: one step each. archive and softDelete read first and write by id;  *)
(* restore locks the rows its first statement found.                         *)
(*                                                                           *)
(* Left out: what is verified (the outcome is chosen freely), object keys,   *)
(* sizes, checksums, duplicates and other columns that no guard reads.       *)
EXTENDS Naturals, ApiRequests

CONSTANTS
    MaxVersion,    \* bound on the versions of the asset
    MaxAttempts    \* bound on the verifications of a version

ASSUME MediaAssumption == MaxVersion \in Nat \ {0} /\ MaxAttempts \in Nat

Versions == 1..MaxVersion

VARIABLES
    asset,       \* the rows: status, attempt, deleted
    passed,      \* the versions that a verification accepted (history)
    stranded     \* the versions whose verifier failed or died (history)

mediaTables == <<asset, passed, stranded>>
mediaVars   == <<mediaTables, req>>

NoAsset == [status |-> "NONE", attempt |-> 0, deleted |-> FALSE]

MediaInit ==
    /\ asset = [n \in Versions |-> NoAsset]
    /\ passed = {} /\ stranded = {}
    /\ req = [r \in Requests |-> Idle]

-----------------------------------------------------------------------------
Answered(r) == Done(r) /\ UNCHANGED mediaTables

With(n, status) == [asset EXCEPT ![n].status = status]

\* media_assets_one_active_version_per_group, of the rows as they would be. (A
\* definition marked Slip is a plausible mistake in the one after it; the
\* checks must notice it.)
ActiveUnindexed(rows) == TRUE      \* Slip: the guards alone
ActiveIndex(rows) ==
    \A n, k \in Versions :
        (\A i \in {n, k} : rows[i].status = "ACTIVE" /\ ~rows[i].deleted) => n = k

\* media_assets_one_pending_replacement_per_group (Safeguard 1), of the rows that
\* replace another. Nothing else keeps the retry of an old verification from
\* running beside a new replacement.
IsPending(row) == row.status \in {"PENDING_UPLOAD", "VERIFYING"}

PendingIndex(rows) ==
    \A n, k \in Versions \ {1} : IsPending(rows[n]) /\ IsPending(rows[k]) => n = k

-----------------------------------------------------------------------------
(* Upload intents                                                            *)

CreateUploadIntent ==
    /\ asset[1].status = "NONE"
    /\ asset' = With(1, "PENDING_UPLOAD")
    /\ UNCHANGED <<req, passed, stranded>>

NumberFree(n) == n \in Versions /\ asset[n].status = "NONE"

\* Replace n. A refusal changes nothing: the guards are all it needs.
CreateVersionUploadIntent(n) ==
    /\ asset[n].status = "ACTIVE"
    /\ \A k \in Versions \ {1} : ~IsPending(asset[k])
    /\ NumberFree(n + 1)
    /\ asset' = With(n + 1, "PENDING_UPLOAD")
    /\ UNCHANGED <<req, passed, stranded>>

-----------------------------------------------------------------------------
(* Verification: claim, verify, finalize                                     *)

\* confirmUpload claims a PENDING_UPLOAD row whose URL has not expired (it may
\* have: then nothing happens), retryVerification a VERIFICATION_FAILED one.
ClaimForVerification(r, n, from) ==
    LET rows == [asset EXCEPT ![n].status = "VERIFYING", ![n].attempt = @ + 1]
    IN  /\ asset[n].status = from /\ asset[n].attempt < MaxAttempts
        /\ PendingIndex(rows)
        /\ asset' = rows
        /\ Begin(r, [pc |-> "verify", version |-> n, attempt |-> asset[n].attempt + 1])
        /\ UNCHANGED <<passed, stranded>>

ConfirmUpload(r, n)     == ClaimForVerification(r, n, "PENDING_UPLOAD")
RetryVerification(r, n) == ClaimForVerification(r, n, "VERIFICATION_FAILED")

\* Every failure of the storage or of the scan is an outcome: none is thrown.
Outcomes == {"success", "rejected", "quarantined", "retryable"}

RunOutsideVerification(r) ==
    /\ At(r, "verify")
    /\ \E o \in Outcomes :
           req' = [req EXCEPT ![r] = [pc |-> "finalize", version |-> req[r].version,
                                      attempt |-> req[r].attempt, outcome |-> o]]
    /\ UNCHANGED mediaTables

StatusUnrecorded(o) ==             \* Slip: a retryable outcome writes no status
    CASE o = "rejected" -> "REJECTED" [] o = "quarantined" -> "QUARANTINED" [] OTHER -> "VERIFYING"
StatusAfter(o) ==
    CASE o = "rejected" -> "REJECTED" [] o = "quarantined" -> "QUARANTINED"
      [] OTHER -> "VERIFICATION_FAILED"

Replaced(n) == n - 1

\* The new version is activated only over the ACTIVE version it replaces.
Activated(n) ==
    [k \in Versions |-> CASE k = n -> [asset[n] EXCEPT !.status = "ACTIVE"]
                          [] k = Replaced(n) -> [asset[k] EXCEPT !.status = "ARCHIVED"]
                          [] OTHER -> asset[k]]

\* In the last case the index refuses, which takes a deleted version that was
\* archived over its deletion and restored: the request fails, its row stays.
FinalizeVerification(r) ==
    LET n == req[r].version
        o == req[r].outcome
        fenced == asset[n].status # "VERIFYING" \/ asset[n].attempt # req[r].attempt
        current == n > 1 => asset[Replaced(n)].status = "ACTIVE"
    IN  /\ At(r, "finalize") /\ Done(r)
        /\ \/ fenced /\ UNCHANGED mediaTables
           \/ /\ ~fenced /\ o = "success" /\ current /\ ActiveIndex(Activated(n))
              /\ asset' = Activated(n) /\ passed' = passed \cup {n}
              /\ UNCHANGED stranded
           \/ /\ ~fenced /\ o = "success" /\ ~current
              /\ asset' = With(n, "REJECTED") /\ UNCHANGED <<passed, stranded>>
           \/ /\ ~fenced /\ o # "success"
              /\ asset' = With(n, StatusAfter(o)) /\ UNCHANGED <<passed, stranded>>
           \/ /\ ~fenced /\ o = "success" /\ current /\ ~ActiveIndex(Activated(n))
              /\ stranded' = stranded \cup {n} /\ UNCHANGED <<asset, passed>>

-----------------------------------------------------------------------------
(* archive, restore, softDelete                                              *)

Look(r, n, label) == Begin(r, [pc |-> label, version |-> n]) /\ UNCHANGED mediaTables

ArchiveAssetRead(r, n) == asset[n].status = "ACTIVE" /\ Look(r, n, "archive")

\* By id: what the row has become since is overwritten, a deletion included.
ArchiveAssetWrite(r) ==
    /\ At(r, "archive")
    /\ asset' = With(req[r].version, "ARCHIVED")
    /\ Done(r) /\ UNCHANGED <<passed, stranded>>

Undeletable == {"NONE", "PENDING_UPLOAD", "VERIFYING", "DELETED"}

SoftDeleteRead(r, n) == asset[n].status \notin Undeletable /\ Look(r, n, "delete")

SoftDeleteWrite(r) ==
    /\ At(r, "delete")
    /\ asset' = [asset EXCEPT ![req[r].version].status = "DELETED",
                              ![req[r].version].deleted = TRUE]
    /\ Done(r) /\ UNCHANGED <<passed, stranded>>

\* The statement finds the version and the ACTIVE ones, then waits for their
\* locks; it does not find a version that becomes ACTIVE while it waits.
RestoreScan(r, n) ==
    /\ asset[n].status # "NONE"
    /\ Begin(r, [pc |-> "restore", version |-> n,
                 found |-> {k \in Versions : asset[k].status = "ACTIVE"} \ {n}])
    /\ UNCHANGED mediaTables

RestorableSlip(n) == asset[n].status \in {"ARCHIVED", "DELETED"}   \* Slip: undelete
Restorable(n)     == asset[n].status = "ARCHIVED"

RestoreWrite(r) ==
    LET n == req[r].version
        ok == /\ Restorable(n)
              /\ \A k \in req[r].found : asset[k].status # "ACTIVE"
              /\ ActiveIndex(With(n, "ACTIVE"))
    IN  /\ At(r, "restore")
        /\ \/ ok /\ asset' = With(n, "ACTIVE") /\ Done(r) /\ UNCHANGED <<passed, stranded>>
           \/ ~ok /\ Answered(r)

-----------------------------------------------------------------------------
(* MediaAssetWriterService.write, in a worker                                *)

\* Without a group to continue, the version is the first of a new one.
WriterFirst ==
    /\ asset[1].status = "NONE"
    /\ asset' = With(1, "ACTIVE") /\ passed' = {1}
    /\ UNCHANGED <<req, stranded>>

\* Jobs continue only groups that an earlier job of theirs began. The latest
\* version is read, then the object is stored.
Generated == 1 \in passed /\ asset[1].attempt = 0

Latest(n) ==
    asset[n].status # "NONE" /\ \A k \in Versions : k > n => asset[k].status = "NONE"

WriterRead(r, n) ==
    /\ Generated /\ Latest(n)
    /\ Begin(r, [pc |-> "write", version |-> n, supersedes |-> asset[n].status = "ACTIVE"])
    /\ UNCHANGED mediaTables

Written(n, supersedes) ==
    [k \in Versions |-> CASE k = n + 1 -> [NoAsset EXCEPT !.status = "ACTIVE"]
                          [] k = n /\ supersedes -> [asset[k] EXCEPT !.status = "ARCHIVED"]
                          [] OTHER -> asset[k]]

\* Archives by id what was ACTIVE and inserts, or fails on a unique index.
WriterWrite(r) ==
    LET n == req[r].version
        rows == Written(n, req[r].supersedes)
    IN  /\ At(r, "write")
        /\ \/ /\ NumberFree(n + 1) /\ ActiveIndex(rows)
              /\ asset' = rows /\ passed' = passed \cup {n + 1}
              /\ Done(r) /\ UNCHANGED stranded
           \/ ~(NumberFree(n + 1) /\ ActiveIndex(rows)) /\ Answered(r)

-----------------------------------------------------------------------------
\* The process dies, or the database fails its next transaction.
MediaAbort(r) ==
    /\ ~At(r, "idle") /\ Done(r)
    /\ stranded' = IF req[r].pc \in {"verify", "finalize"}
                   THEN stranded \cup {req[r].version} ELSE stranded
    /\ UNCHANGED <<asset, passed>>

MediaStep(r) ==
    \/ RunOutsideVerification(r) \/ FinalizeVerification(r)
    \/ ArchiveAssetWrite(r) \/ SoftDeleteWrite(r) \/ RestoreWrite(r)
    \/ WriterWrite(r) \/ MediaAbort(r)

MediaCall(r, n) ==
    \/ ConfirmUpload(r, n) \/ RetryVerification(r, n)
    \/ ArchiveAssetRead(r, n) \/ SoftDeleteRead(r, n) \/ RestoreScan(r, n) \/ WriterRead(r, n)

MediaNext ==
    \/ CreateUploadIntent \/ WriterFirst
    \/ \E n \in Versions : CreateVersionUploadIntent(n)
    \/ \E r \in Requests : MediaStep(r) \/ \E n \in Versions : MediaCall(r, n)

MediaSpec == MediaInit /\ [][MediaNext]_mediaVars

-----------------------------------------------------------------------------
(* Properties                                                                *)

MediaStatus == {"NONE", "PENDING_UPLOAD", "VERIFYING", "VERIFICATION_FAILED", "REJECTED",
                "QUARANTINED", "ACTIVE", "ARCHIVED", "DELETED"}

MediaCalls ==
    [pc : {"verify"}, version : Versions, attempt : Nat]
    \cup [pc : {"finalize"}, version : Versions, attempt : Nat, outcome : Outcomes]
    \cup [pc : {"archive", "delete"}, version : Versions]
    \cup [pc : {"restore"}, version : Versions, found : SUBSET Versions]
    \cup [pc : {"write"}, version : Versions, supersedes : BOOLEAN]

\* Type invariant of the rows and the requests.
MediaTypeOK ==
    /\ asset \in [Versions -> [status : MediaStatus, attempt : Nat, deleted : BOOLEAN]]
    /\ passed \subseteq Versions /\ stranded \subseteq Versions
    /\ req \in [Requests -> MediaCalls \cup {Idle}]

\* The one-current-version invariant (MODULE 1D ENGINEERING PLAN 5): whichever
\* finalizations, restores and workers race, one version is ACTIVE. restore and
\* the writer rely on the index for it.
OneCurrent ==
    \A n, k \in Versions :
        (\A i \in {n, k} : asset[i].status = "ACTIVE" /\ ~asset[i].deleted) => n = k

\* What can be served, or restored to be served, passed a verification: no
\* sequence of deletions, archivals and restores, however stale, brings a
\* rejected, quarantined or unverified upload there.
ServedWasVerified ==
    \A n \in Versions : asset[n].status \in {"ACTIVE", "ARCHIVED"} => n \in passed

\* "Every possible failure is caught and funneled into a classified outcome":
\* a version is VERIFYING, where nobody may touch it, only while a request is
\* going to finalize it, unless that request died or failed on the index.
VerificationOwned ==
    \A n \in Versions : asset[n].status = "VERIFYING" =>
        \/ n \in stranded
        \/ \E r \in Requests : /\ req[r].pc \in {"verify", "finalize"}
                               /\ req[r].version = n /\ req[r].attempt = asset[n].attempt

\* createVersionUploadIntent: "`current` is always the highest version in its
\* group", so that when no replacement is in progress the next number is free.
\* (It is not once a replacement was rejected: that row keeps its number.)
Replaceable ==
    \A n \in 1..(MaxVersion - 1) :
        asset[n].status = "ACTIVE" /\ ~(\E k \in Versions : IsPending(asset[k])) => NumberFree(n + 1)

-----------------------------------------------------------------------------
(* The inductive invariant behind them.                                      *)

\* Nothing happens before there is a first version.
Rooted ==
    asset[1].status = "NONE" =>
        /\ \A n \in Versions : asset[n].status = "NONE"
        /\ passed = {} /\ \A r \in Requests : At(r, "idle")

\* Whoever is going to archive by id found a version that had been verified.
ArchivesVerified ==
    \A r \in Requests :
        At(r, "archive") \/ (At(r, "write") /\ req[r].supersedes) => req[r].version \in passed

MediaIInv == /\ MediaTypeOK /\ Rooted /\ ArchivesVerified
             /\ OneCurrent /\ ServedWasVerified /\ VerificationOwned
=============================================================================
