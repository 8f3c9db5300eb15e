----------------------------- MODULE SocialPosts -----------------------------
(* One social post: SocialGenerationService (creation from an approved       *)
(* source, regeneration) and SocialService (edit, review) over               *)
(* ContentItemsService.                                                      *)
(*                                                                           *)
(* An author - an edit, or the agents of a regeneration - decides on a text  *)
(* and a picture, has createVersion add a version with the text under the    *)
(* lock of the item, and writes the picture of that version, then the jobs   *)
(* that generated it, in statements of their own. Approval copies the text   *)
(* of the current version into the caption that publishing reads; the        *)
(* picture is read from the row of the version.                              *)
(*                                                                           *)
(* Left out: the agents (they run within the request, their ai_jobs rows are *)
(* records nobody decides on), the status of source and picture, permissions.*)
(* A version is its own text, and named by its number.                       *)
EXTENDS Naturals, Sequences, ApiRequests

CONSTANTS
    Pictures,          \* ACTIVE media assets an author may choose
    MaxPostVersions    \* bound on the versions

ASSUME PostAssumption == None \notin Requests

VARIABLES
    post,        \* the item: status, status before the archiving, current version,
                 \* version of metadata.publishing.caption (0: none of them), and
                 \* whether a person replaced the metadata since (history)
    drafts       \* by version: its picture and its generation record; what the
                 \* author meant it to show, whether it was generated, who is still
                 \* at work on it, and whether that work was cut short (history)

postTables == <<post, drafts>>
postVars   == <<postTables, req>>

NoPost == [status |-> "NONE", from |-> "NONE", current |-> 0, caption |-> 0, patched |-> FALSE]

PostInit ==
    /\ post = NoPost /\ drafts = <<>>
    /\ req = [r \in Requests |-> Idle]

PostIs(status) == post.status = status
PostExists     == post.status \notin {"NONE", "DELETED"}
PictureChoices == Pictures \cup {None}

-----------------------------------------------------------------------------
(* createFromSource                                                          *)

\* The source is read, both agents answer, a picture of the source is proposed.
CreateFromSource(r) ==
    /\ PostIs("NONE")
    /\ \E p \in PictureChoices : Begin(r, [pc |-> "create", picture |-> p])
    /\ UNCHANGED postTables

\* The item, its first version, the picture and the record: one transaction.
CreateSocialPost(r) ==
    /\ At(r, "create") /\ PostIs("NONE") /\ Goto(r, "start")
    /\ post' = [post EXCEPT !.status = "DRAFT", !.current = 1]
    /\ drafts' = <<[picture |-> req[r].picture, generated |-> TRUE, meant |-> req[r].picture,
                    byAgents |-> TRUE, author |-> None, cutShort |-> FALSE]>>

StartPost == PostIs("DRAFT") /\ post' = [post EXCEPT !.status = "IN_PROGRESS"] /\ UNCHANGED drafts

\* The request that created the post starts it, and so may any other.
StartCreated(r) == At(r, "start") /\ StartPost /\ Done(r)

-----------------------------------------------------------------------------
(* Authors                                                                   *)

\* EDITABLE_STATUSES. (A definition marked Slip is a plausible mistake in the
\* one after it; the checks must notice it.)
PostKept     == PostExists                            \* Slip: whatever the review says
PostEditable == post.status \in {"DRAFT", "IN_PROGRESS"}

Authoring(picture, meant, byAgents, cutShort) ==
    [pc |-> "version", picture |-> picture, meant |-> meant, byAgents |-> byAgents,
     cutShort |-> cutShort]

\* The status is read before the agents are called, the picture proposed after.
Regenerate(r) ==
    /\ PostEditable /\ \E p \in PictureChoices : Begin(r, Authoring(p, p, TRUE, FALSE))
    /\ UNCHANGED postTables

\* An edit names a picture, takes it away, or keeps that of the version it reads.
EditPost(r) ==
    /\ PostExists
    /\ \/ \E p \in PictureChoices : Begin(r, Authoring(p, p, FALSE, FALSE))
       \/ Begin(r, [pc |-> "keep", seen |-> post.current])
    /\ UNCHANGED postTables

\* The row may not be there yet, or never come.
KeepPicture(r) ==
    /\ At(r, "keep")
    /\ LET d == drafts[req[r].seen]
       IN  req' = [req EXCEPT ![r] = Authoring(d.picture, d.meant, FALSE,
                                             d.cutShort \/ d.author # None)]
    /\ UNCHANGED postTables

\* What is left to write for a version.
NextWrite(call) ==
    IF call.pc = "version" /\ call.picture # None THEN "picture"
    ELSE IF call.pc # "record" /\ call.byAgents THEN "record"
    ELSE "none"

\* The author goes on, or is done with version v of rows.
WriteOn(r, v, rows) ==
    LET next == NextWrite(req[r])
    IN  IF next = "none"
        THEN Done(r) /\ drafts' = [rows EXCEPT ![v].author = None]
        ELSE /\ req' = [req EXCEPT ![r] = [pc |-> next, picture |-> req[r].picture,
                                           byAgents |-> req[r].byAgents, version |-> v]]
             /\ drafts' = rows

\* ContentItemsService.createVersion.
CreateVersion(r) ==
    /\ At(r, "version") /\ PostEditable /\ Len(drafts) < MaxPostVersions
    /\ post' = [post EXCEPT !.current = Len(drafts) + 1]
    /\ WriteOn(r, Len(drafts) + 1,
               Append(drafts, [picture |-> None, generated |-> FALSE, meant |-> req[r].meant,
                               byAgents |-> req[r].byAgents, author |-> r,
                               cutShort |-> req[r].cutShort]))

CurrentByThen(r) == post.current         \* Slip: the item is read again
OwnVersion(r)    == req[r].version

AttachPicture(r) ==
    /\ At(r, "picture") /\ UNCHANGED post
    /\ WriteOn(r, req[r].version, [drafts EXCEPT ![OwnVersion(r)].picture = req[r].picture])

RecordGeneration(r) ==
    /\ At(r, "record") /\ UNCHANGED post
    /\ WriteOn(r, req[r].version, [drafts EXCEPT ![OwnVersion(r)].generated = TRUE])

\* The request dies, or a statement of it is refused or fails.
AbandonPost(r) ==
    /\ ~At(r, "idle") /\ Done(r) /\ UNCHANGED post
    /\ drafts' = IF req[r].pc \in {"picture", "record"}
                 THEN [drafts EXCEPT ![req[r].version].author = None,
                                     ![req[r].version].cutShort = TRUE]
                 ELSE drafts

-----------------------------------------------------------------------------
(* Review and the rest of the life cycle, each one transaction               *)

MovePost(from, to) ==
    PostIs(from) /\ post' = [post EXCEPT !.status = to] /\ UNCHANGED drafts

SubmitPost == MovePost("IN_PROGRESS", "REVIEW")
RejectPost == MovePost("REVIEW", "IN_PROGRESS")

\* buildSocialApprovalMetadataUpdate: the caption, of the version under review.
Composed == [post EXCEPT !.caption = post.current, !.patched = FALSE]

ApprovePost ==
    /\ PostIs("REVIEW") /\ UNCHANGED drafts
    /\ post' = [Composed EXCEPT !.status = "APPROVED"]

ArchivePost ==
    /\ post.status \in {"DRAFT", "IN_PROGRESS", "REVIEW", "APPROVED"} /\ UNCHANGED drafts
    /\ post' = [post EXCEPT !.status = "ARCHIVED", !.from = post.status]

RestorePost ==
    /\ PostIs("ARCHIVED") /\ UNCHANGED drafts
    /\ post' = [post EXCEPT !.status = post.from, !.from = "NONE"]

RemovePost == PostExists /\ post' = [post EXCEPT !.status = "DELETED"] /\ UNCHANGED drafts

\* ContentItemsService.update: the caller's metadata replaces the item's, in
\* every status.
PatchPost ==
    /\ PostExists /\ UNCHANGED drafts
    /\ post' = [post EXCEPT !.caption = 0, !.patched = TRUE]

-----------------------------------------------------------------------------
PostRequest(r) ==
    \/ CreateFromSource(r) \/ CreateSocialPost(r) \/ StartCreated(r)
    \/ Regenerate(r) \/ EditPost(r) \/ KeepPicture(r)
    \/ CreateVersion(r) \/ AttachPicture(r) \/ RecordGeneration(r)
    \/ AbandonPost(r)

PostLifecycle ==
    \/ StartPost \/ SubmitPost \/ ApprovePost \/ RejectPost
    \/ ArchivePost \/ RestorePost \/ RemovePost \/ PatchPost

PostNext ==
    \/ \E r \in Requests : PostRequest(r)
    \/ PostLifecycle /\ UNCHANGED req

PostSpec == PostInit /\ [][PostNext]_postVars

-----------------------------------------------------------------------------
(* Properties                                                                *)

\* What an approved post would publish is one author's work: the caption is the
\* text of the current version, unless a person replaced the metadata after the
\* approval, and the picture and the record of generation are those its author
\* meant, unless that author is still at work (it may be, even after the
\* approval), was cut short, or kept the picture of a version that was so.
PublishedAsMeant ==
    PostIs("APPROVED") =>
        /\ post.patched \/ post.caption = post.current
        /\ LET d == drafts[post.current]
           IN  d.author = None /\ ~d.cutShort =>
                   /\ d.picture = d.meant
                   /\ d.byAgents <=> d.generated

-----------------------------------------------------------------------------
(* The inductive invariant behind it                                         *)

PostStatuses == {"DRAFT", "IN_PROGRESS", "REVIEW", "APPROVED"}
DraftType == [picture : PictureChoices, generated : BOOLEAN, meant : PictureChoices,
              byAgents : BOOLEAN, author : Requests \cup {None}, cutShort : BOOLEAN]
PostCalls ==
         [pc : {"create", "start"}, picture : PictureChoices]
    \cup [pc : {"keep"}, seen : Nat]
    \cup [pc : {"version"}, picture : PictureChoices, meant : PictureChoices,
          byAgents : BOOLEAN, cutShort : BOOLEAN]
    \cup [pc : {"picture", "record"}, picture : PictureChoices, byAgents : BOOLEAN, version : Nat]

PostTypeOK ==
    /\ post \in [status : PostStatuses \cup {"NONE", "ARCHIVED", "DELETED"},
                 from : PostStatuses \cup {"NONE"}, current : Nat, caption : Nat,
                 patched : BOOLEAN]
    /\ drafts \in Seq(DraftType)
    /\ req \in [Requests -> PostCalls \cup {Idle}]

NothingPosted == PostIs("NONE") =>
    drafts = <<>> /\ \A r \in Requests : req[r].pc \in {"idle", "create"}
VersionsThere ==
    /\ PostIs("NONE") \/ post.current \in DOMAIN drafts
    /\ \A r \in Requests : At(r, "keep") => req[r].seen \in DOMAIN drafts
CaptionKept ==
    /\ PostIs("ARCHIVED") => post.from \in PostStatuses
    /\ PostIs("APPROVED") \/ (PostIs("ARCHIVED") /\ post.from = "APPROVED")
           => post.patched \/ post.caption = post.current

\* What is finished shows what its author meant.
Shows(d)   == d.picture = d.meant /\ (d.byAgents <=> d.generated)
DraftsShow == \A v \in DOMAIN drafts : drafts[v].author = None /\ ~drafts[v].cutShort => Shows(drafts[v])

\* An author at work has a version to itself, and knows what is missing of it.
AtWork(r) == req[r].pc \in {"picture", "record"}
Works(r, d) ==
    /\ d.author = r /\ d.byAgents = req[r].byAgents /\ ~d.generated
    /\ ~d.cutShort => req[r].picture = d.meant
    /\ At(r, "record") => d.picture = req[r].picture /\ d.byAgents
AuthorsKnow == \A r \in Requests :
    /\ At(r, "version") /\ ~req[r].cutShort => req[r].picture = req[r].meant
    /\ AtWork(r) => req[r].version \in DOMAIN drafts /\ Works(r, drafts[req[r].version])

PostIInv == /\ PostTypeOK /\ NothingPosted /\ VersionsThere /\ CaptionKept
            /\ DraftsShow /\ AuthorsKnow
=============================================================================
