-------------------------- MODULE ChannelProviders ---------------------------
(* One publication target of a YouTube channel, an Instagram account or a    *)
(* WordPress site, executed again and again: publish of the three channel    *)
(* providers within PublishingExecutionService.execute. (The Facebook page,  *)
(* and everything around an execution, is Publishing's subject.)             *)
(*                                                                           *)
(* How each avoids to publish twice: YouTube and Instagram save a checkpoint *)
(* of the remote object (an upload session, a media container) before its    *)
(* bytes are sent, and a later execution goes on with that object; WordPress *)
(* looks for a post with the marker of the target before it creates one.     *)
(*                                                                           *)
(* The remote side is external: a session that is complete keeps answering   *)
(* with its video and only an incomplete one expires; a container is         *)
(* published at most once; a request whose reply was lost may have been      *)
(* applied, or may be applied later. Bytes and chunks are left out.          *)
EXTENDS Naturals, Sequences

CONSTANTS
    Handlers,      \* executions in progress at the same time
    MaxRuns,       \* bound: executions in a behaviour
    MaxObjects     \* bound: remote objects in a behaviour

ASSUME ProviderAssumption == MaxRuns \in Nat /\ MaxObjects \in Nat

VARIABLES
    channel,     \* YOUTUBE, INSTAGRAM or WORDPRESS
    status,      \* of the publication_targets row
    saved,       \* the object of the latest checkpoint row; 0 if there is none
    objects,     \* the remote sessions or containers, in the order of creation
    contents,    \* videos, media or posts that the audience can see
    delayed,     \* requests to create a post that are still under way unanswered
    exec,        \* each handler: its next step and the object it works on
    runs,        \* bound
    excuse       \* auxiliary: what the providers do not protect from has happened

providerVars == <<channel, status, saved, objects, contents, delayed, exec, runs, excuse>>

Channels  == {"YOUTUBE", "INSTAGRAM", "WORDPRESS"}
Resting   == [pc |-> "idle", object |-> 0, fresh |-> FALSE]
Running(h, label) == exec[h].pc = label
NextIs(h, label)  == exec' = [exec EXCEPT ![h].pc = label]

ProviderInit ==
    /\ channel \in Channels /\ status = "QUEUED"
    /\ saved = 0 /\ objects = <<>> /\ contents = 0 /\ delayed = 0
    /\ exec = [h \in Handlers |-> Resting] /\ runs = 0 /\ excuse = FALSE

-----------------------------------------------------------------------------
(* The execution around the provider                                         *)

\* Only a target that is QUEUED or FAILED may begin.
BeginRun(h) ==
    /\ Running(h, "idle") /\ status \in {"QUEUED", "FAILED"}
    /\ runs < MaxRuns /\ runs' = runs + 1
    /\ NextIs(h, IF status = "FAILED" THEN "prepare" ELSE "start")
    /\ UNCHANGED <<channel, status, saved, objects, contents, delayed, excuse>>

\* Both by id, whatever the target has become since it was read.
PrepareRun(h) ==
    /\ Running(h, "prepare")
    /\ status' = "QUEUED" /\ NextIs(h, "start")
    /\ UNCHANGED <<channel, saved, objects, contents, delayed, runs, excuse>>

StartRun(h) ==
    /\ Running(h, "start")
    /\ status' = "PUBLISHING" /\ NextIs(h, "load")
    /\ UNCHANGED <<channel, saved, objects, contents, delayed, runs, excuse>>

\* Another execution is about to create what this one has not seen: what none
\* of the three providers can know of.
Creating(h) == \E other \in Handlers \ {h} : exec[other].pc \in {"create", "save", "post"}

\* loadPriorCheckpoint, the latest of any earlier attempt, and the branch that
\* publish takes on it.
LoadPrior(h) ==
    /\ Running(h, "load")
    /\ exec' = [exec EXCEPT ![h] =
          [pc |-> IF channel = "WORDPRESS" THEN "lookup"
                  ELSE IF saved = 0 THEN "create" ELSE "ask",
           object |-> saved, fresh |-> FALSE]]
    /\ excuse' = (excuse \/ (channel # "WORDPRESS" /\ saved = 0 /\ Creating(h)))
    /\ UNCHANGED <<channel, status, saved, objects, contents, delayed, runs>>

\* Whatever the provider throws, retryable or permanent: failTarget.
Throws(h) == exec' = [exec EXCEPT ![h] = [Resting EXCEPT !.pc = "failed"]]
Returns(h) == exec' = [exec EXCEPT ![h] = [Resting EXCEPT !.pc = "done"]]

\* completeTarget; if the database refuses it, it is caught like any failure.
CompleteRun(h) ==
    /\ Running(h, "done")
    /\ \/ status' = "PUBLISHED" /\ exec' = [exec EXCEPT ![h] = Resting]
       \/ Throws(h) /\ UNCHANGED status
    /\ UNCHANGED <<channel, saved, objects, contents, delayed, runs, excuse>>

FailRun(h) ==
    /\ Running(h, "failed")
    /\ status' = "FAILED" /\ exec' = [exec EXCEPT ![h] = Resting]
    /\ UNCHANGED <<channel, saved, objects, contents, delayed, runs, excuse>>

\* The worker dies, or a database call outside the try throws.
DieRun(h) ==
    /\ ~Running(h, "idle") /\ exec' = [exec EXCEPT ![h] = Resting]
    /\ UNCHANGED <<channel, status, saved, objects, contents, delayed, runs, excuse>>

-----------------------------------------------------------------------------
(* YouTube and Instagram: the object                                         *)

Kept == <<channel, status, contents, delayed, runs>>

\* The object that this execution found is of no use: it creates another one.
Replace(h) ==
    /\ exec' = [exec EXCEPT ![h].pc = "create", ![h].fresh = TRUE]
    /\ excuse' = (excuse \/ saved # exec[h].object \/ Creating(h))

\* createUploadSession, or the creation of a container. The object exists also
\* when the reply is lost.
CreateObject(h) ==
    /\ Running(h, "create") /\ Len(objects) < MaxObjects
    /\ \/ /\ objects' = Append(objects, "open")
          /\ exec' = [exec EXCEPT ![h].pc = "save", ![h].object = Len(objects) + 1]
       \/ objects' \in {objects, Append(objects, "open")} /\ Throws(h)
    /\ UNCHANGED <<Kept, saved, excuse>>

SaveLater(h)   == UNCHANGED saved               \* Slip: saved when the upload is over
SaveObject(h)  == saved' = exec[h].object

\* saveCheckpoint, before the first byte is sent.
SaveCheckpoint(h) ==
    /\ Running(h, "save")
    /\ \/ SaveObject(h) /\ NextIs(h, "upload")
       \/ Throws(h) /\ UNCHANGED saved
    /\ UNCHANGED <<Kept, objects, excuse>>

Object(h) == objects[exec[h].object]
Become(h, state) == objects' = [objects EXCEPT ![exec[h].object] = state]

-----------------------------------------------------------------------------
(* YouTubeChannelProvider                                                    *)

\* resumeFromCheckpoint: the state of the session decides.
AskSession(h) ==
    /\ channel = "YOUTUBE" /\ Running(h, "ask")
    /\ \/ Object(h) = "gone" /\ Replace(h)
       \/ Object(h) = "done" /\ Returns(h) /\ UNCHANGED excuse
       \/ Object(h) = "open" /\ NextIs(h, "upload") /\ UNCHANGED excuse
       \/ Throws(h) /\ UNCHANGED excuse
    /\ UNCHANGED <<Kept, saved, objects>>

\* uploadChunks: it ends with the last chunk, which makes the video and whose
\* reply may be lost, or before it. Sending it again is answered alike.
UploadChunks(h) ==
    /\ channel = "YOUTUBE" /\ Running(h, "upload")
    /\ \/ /\ Object(h) = "open" /\ Become(h, "done") /\ contents' = contents + 1
          /\ Returns(h) \/ Throws(h)
       \/ Object(h) = "done" /\ Returns(h) /\ UNCHANGED <<objects, contents>>
       \/ Throws(h) /\ UNCHANGED <<objects, contents>>
    /\ UNCHANGED <<channel, status, saved, delayed, runs, excuse>>

-----------------------------------------------------------------------------
(* InstagramChannelProvider                                                  *)

\* The bytes in one request; a container without them is never processed.
UploadMedia(h) ==
    /\ channel = "INSTAGRAM" /\ Running(h, "upload")
    /\ \/ /\ objects' = IF Object(h) = "open" THEN [objects EXCEPT ![exec[h].object] = "processing"]
                        ELSE objects
          /\ NextIs(h, "ask") \/ Throws(h)
       \/ Throws(h) /\ UNCHANGED objects
    /\ UNCHANGED <<Kept, saved, excuse>>

\* pollContainerStatus, once more for the container that replaces an expired
\* one. What is PUBLISHED already is a permanent error: its id is lost.
PollContainer(h) ==
    /\ channel = "INSTAGRAM" /\ Running(h, "ask")
    /\ \/ Object(h) = "finished" /\ NextIs(h, "publish") /\ UNCHANGED excuse
       \/ Object(h) = "gone" /\ ~exec[h].fresh /\ Replace(h)
       \/ Throws(h) /\ UNCHANGED excuse
    /\ UNCHANGED <<Kept, saved, objects>>

PublishContainer(h) ==
    /\ channel = "INSTAGRAM" /\ Running(h, "publish")
    /\ \/ /\ Object(h) = "finished" /\ Become(h, "published") /\ contents' = contents + 1
          /\ Returns(h) \/ Throws(h)
       \/ Throws(h) /\ UNCHANGED <<objects, contents>>
    /\ UNCHANGED <<channel, status, saved, delayed, runs, excuse>>

-----------------------------------------------------------------------------
(* WordPressChannelProvider                                                  *)

FailedLookup(h) == NextIs(h, "post")   \* Slip: taken for "no existing post"
LookupThrows(h) == Throws(h)

\* findPostByMarker; a lookup that fails must not pass for "no existing post".
FindPostByMarker(h) ==
    /\ channel = "WORDPRESS" /\ Running(h, "lookup")
    /\ \/ contents > 0 /\ Returns(h) /\ UNCHANGED excuse
       \/ contents = 0 /\ NextIs(h, "post") /\ excuse' = (excuse \/ Creating(h))
       \/ LookupThrows(h) /\ UNCHANGED excuse
    /\ UNCHANGED <<Kept, saved, objects>>

\* The reply may be lost before or after the post was made, or time out with
\* the request still under way.
CreatePost(h) ==
    /\ channel = "WORDPRESS" /\ Running(h, "post")
    /\ \/ contents' = contents + 1 /\ (Returns(h) \/ Throws(h)) /\ UNCHANGED delayed
       \/ contents' = contents /\ Throws(h) /\ delayed' \in {delayed, delayed + 1}
    /\ UNCHANGED <<channel, status, saved, objects, runs, excuse>>

-----------------------------------------------------------------------------
(* The remote side on its own                                                *)

\* Sessions and containers that led to nothing expire; media are processed.
RemoteProgress ==
    /\ \E k \in DOMAIN objects :
          \/ /\ objects[k] \in {"open", "processing", "finished"}
             /\ objects' = [objects EXCEPT ![k] = "gone"]
          \/ /\ objects[k] = "processing"
             /\ \E s \in {"finished", "broken"} : objects' = [objects EXCEPT ![k] = s]
    /\ UNCHANGED <<Kept, saved, exec, excuse>>

\* A request that nobody waits for is applied at last.
LatePost ==
    /\ delayed > 0 /\ delayed' = delayed - 1 /\ contents' = contents + 1
    /\ excuse' = TRUE
    /\ UNCHANGED <<channel, status, saved, objects, exec, runs>>

-----------------------------------------------------------------------------
ProviderNext ==
    \/ \E h \in Handlers :
          \/ BeginRun(h) \/ PrepareRun(h) \/ StartRun(h) \/ LoadPrior(h)
          \/ CompleteRun(h) \/ FailRun(h) \/ DieRun(h)
          \/ CreateObject(h) \/ SaveCheckpoint(h)
          \/ AskSession(h) \/ UploadChunks(h)
          \/ UploadMedia(h) \/ PollContainer(h) \/ PublishContainer(h)
          \/ FindPostByMarker(h) \/ CreatePost(h)
    \/ RemoteProgress \/ LatePost

ProviderSpec == ProviderInit /\ [][ProviderNext]_providerVars

-----------------------------------------------------------------------------
(* Properties                                                                *)

\* "A real duplicate" never comes of one execution after another: however often
\* replies are lost, uploads expire, checkpoints fail to be saved and the target
\* is executed again, the channel shows its content at most once, unless an
\* execution created what another one was about to create, unseen, or WordPress
\* applied a request after the client had given up on it.
OneExternalContent == contents <= 1 \/ excuse

-----------------------------------------------------------------------------
(* The inductive invariant behind it                                         *)

ObjectStates == {"open", "processing", "finished", "broken", "gone", "done", "published"}
ExecType == [pc : {"idle", "prepare", "start", "load", "create", "save", "ask", "upload",
                   "publish", "lookup", "post", "done", "failed"},
             object : Nat, fresh : BOOLEAN]

ProviderTypeOK ==
    /\ channel \in Channels
    /\ saved \in 0..Len(objects) /\ objects \in Seq(ObjectStates)
    /\ contents \in Nat /\ excuse \in BOOLEAN
    /\ exec \in [Handlers -> ExecType]

WorksOn(h)    == exec[h].pc \in {"upload", "ask", "publish"}
IsCreating(h) == exec[h].pc \in {"create", "save", "post"}

ObjectsThere == \A h \in Handlers :
    WorksOn(h) \/ Running(h, "save") => exec[h].object \in DOMAIN objects

\* WordPress has no objects, and the others look nothing up.
OwnSteps ==
    IF channel = "WORDPRESS"
    THEN saved = 0 /\ \A h \in Handlers : ~WorksOn(h) /\ exec[h].pc \notin {"create", "save"}
    ELSE \A h \in Handlers : exec[h].pc \notin {"lookup", "post"}

\* Unless excused: who creates is alone in that, and there is nothing to go on
\* with;
OneCreating == \A h \in Handlers : IsCreating(h) =>
    ~Creating(h) /\ contents = 0 /\ (saved = 0 \/ objects[saved] = "gone")

\* an object that an execution works on is the saved one, or of no use;
WorksOnSaved == \A h \in Handlers :
    WorksOn(h) => exec[h].object = saved \/ objects[exec[h].object] = "gone"

\* and the saved one is the only one that can have led to content.
ShownIsSaved ==
    /\ contents <= 1
    /\ channel # "WORDPRESS" =>
          /\ contents = 1 => saved # 0 /\ objects[saved] \in {"done", "published"}
          /\ \A k \in DOMAIN objects :
                objects[k] \in {"done", "published"} => k = saved /\ contents = 1

ProviderIInv ==
    /\ ProviderTypeOK /\ ObjectsThere /\ OwnSteps
    /\ excuse \/ (OneCreating /\ WorksOnSaved /\ ShownIsSaved)
=============================================================================
