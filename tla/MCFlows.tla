------------------------------ MODULE MCFlows -------------------------------
(* More components side by side: a video and the timing of one, the row of a *)
(* media job, the memberships of a workspace, the executions of a target on  *)
(* three channels, and a consumer of events. They share no row, so that a    *)
(* behaviour follows one of them, its focus, and leaves the others as they   *)
(* begin.                                                                    *)
EXTENDS VideoPipeline, VideoTiming, MediaJobs, Memberships, ChannelProviders, EventConsumers,
        TLC

CONSTANTS r1, r2

VARIABLE focus

Flows == {"video", "timing", "media", "members", "channels", "events"}

videoTables == <<video, jobs, upload, gone, itemStatus, effort, belated, orphaned>>

\* What is not followed begins in one state of its own.
FlowsInit ==
    /\ focus \in Flows
    /\ VideoInit        /\ (focus # "video"    => video = Created)
    /\ MediaJobInit     /\ (focus # "media"    => kind = "image")
    /\ MemberInit       /\ (focus # "members"  => /\ member[Founder].role = "Owner"
                                                  /\ \A u \in Users \ {Founder} : account[u] = "NONE")
    /\ ProviderInit     /\ (focus # "channels" => channel = "WORDPRESS")
    /\ ConsumerInit     /\ (focus # "events"   => category = "A")
    /\ IF focus = "timing" THEN TimingInit ELSE NoTimeline /\ NoSubtitles

FlowsNext ==
    /\ UNCHANGED <<focus, timingVars>>
    /\ \/ focus = "video"    /\ Next         /\ UNCHANGED <<mediaJobVars, memberTables, providerVars, consumerVars>>
       \/ focus = "media"    /\ MediaJobNext /\ UNCHANGED <<vars, memberTables, providerVars, consumerVars>>
       \/ focus = "members"  /\ MemberNext   /\ UNCHANGED <<videoTables, mediaJobVars, providerVars, consumerVars>>
       \/ focus = "channels" /\ ProviderNext /\ UNCHANGED <<vars, mediaJobVars, memberTables, consumerVars>>
       \/ focus = "events"   /\ ConsumerNext /\ UNCHANGED <<vars, mediaJobVars, memberTables, providerVars>>

flowsVars == <<focus, timingVars, vars, mediaJobVars, memberTables, providerVars, consumerVars>>
FlowsSpec == FlowsInit /\ [][FlowsNext]_flowsVars

\* Requests are alike, and so are the workers, which have the same names.
Symmetry == Permutations({r1, r2})
=============================================================================
