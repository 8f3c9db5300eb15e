---------------------------- MODULE MCApiTables -----------------------------
(* Seven components of the API side by side. Their tables have no row in      *)
(* common and a request runs one operation, so that a behaviour follows one  *)
(* component, its focus, and leaves the others as they begin.                *)
EXTENDS KnowledgePacks, MediaAssets, BlogPipeline, AiJobs, ContentLocks, SocialPosts,
        EnqueueOnce, TLC

CONSTANTS r1, r2, v1, v2, v3

VARIABLE focus

Components == {"packs", "media", "blog", "ai", "content", "social", "enqueue"}

TablesInit ==
    /\ focus \in Components
    /\ PackInit /\ MediaInit /\ BlogInit /\ AiInit /\ LockInit
    /\ PostInit /\ EnqueueInit
    /\ focus # "content" => /\ \A s \in Series : series[s].project = None
                            /\ \A i \in Items : content[i].project = None

TablesNext ==
    /\ UNCHANGED focus
    /\ \/ focus = "packs"   /\ PackNext    /\ UNCHANGED <<mediaTables, blogTables, aiVars, lockTables, postTables, keyedTables>>
       \/ focus = "media"   /\ MediaNext   /\ UNCHANGED <<packTables, blogTables, aiVars, lockTables, postTables, keyedTables>>
       \/ focus = "blog"    /\ BlogNext    /\ UNCHANGED <<packTables, mediaTables, aiVars, lockTables, postTables, keyedTables>>
       \/ focus = "ai"      /\ AiNext      /\ UNCHANGED <<packTables, mediaTables, blogTables, lockTables, postTables, keyedTables, req>>
       \/ focus = "content" /\ ContentNext /\ UNCHANGED <<packTables, mediaTables, blogTables, aiVars, postTables, keyedTables>>
       \/ focus = "social"  /\ PostNext    /\ UNCHANGED <<packTables, mediaTables, blogTables, aiVars, lockTables, keyedTables>>
       \/ focus = "enqueue" /\ EnqueueNext /\ UNCHANGED <<packTables, mediaTables, blogTables, aiVars, lockTables, postTables>>

tablesVars == <<focus, packTables, mediaTables, blogTables, aiVars, lockTables, postTables, keyedTables, req>>
TablesSpec == TablesInit /\ [][TablesNext]_tablesVars

\* One approved stage before the draft: the prerequisite of a second is alike.
OneApproval == <<"outline">>

\* Requests are alike, and so are the versions of a pack other than the first.
Symmetry == Permutations({r1, r2}) \cup Permutations({v2, v3})
=============================================================================
