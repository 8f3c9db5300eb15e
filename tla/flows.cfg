SPECIFICATION FlowsSpec
CONSTANTS
  r1 = r1
  r2 = r2
  None = None
  Requests = {r1, r2}
  Scenes = {s1}
  Uploads = {u1}
  Profiles = {p1, p2}
  MaxEffort = 2
  Users = {founder, other}
  Founder = founder
  Invitations = {1, 2}
  Handlers = {r1, r2}
  MaxRuns = 4
  MaxObjects = 3
  Workers = {r1, r2}
  MaxDeliveries = 4
  MediaBudget = 3
  MaxAttempt = 4
  MinCue = 2
  MaxCue = 3
  MaxScenes = 3
  MaxLength = 3
  MaxWords = 4
  MaxClock = 4
SYMMETRY Symmetry
INVARIANTS
  StagesOwned
  OneRender
  AdmittedOnce
  OneExternalContent
  HandledOnce
  MediaDriven
  TimelineFits
  CuesFollowNarration
PROPERTIES
  SubmittedIsCurrent
  OwnerStands
  CompletedStands
CHECK_DEADLOCK FALSE
