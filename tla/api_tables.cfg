SPECIFICATION TablesSpec
CONSTANTS
  r1 = r1
  r2 = r2
  v1 = v1
  v2 = v2
  v3 = v3
  None = None
  Requests = {r1, r2}
  Packs = {v1, v2, v3}
  Root = v1
  Projects = {p1}
  MaxEdits = 2
  MaxVersion = 3
  MaxAttempts = 2
  Approvals <- OneApproval
  MaxClaims = 2
  MaxVersions = 3
  Budget = 3
  MaxStarts = 4
  Series = {1, 2}
  Items = {3}
  Medias = {5}
  ItemProjects = {p1}
  Pictures = {picture}
  MaxPostVersions = 3
  JobScopes = {platform, workspace}
  Platform = platform
  Payloads = {this, that}
  MaxKeyed = 3
SYMMETRY Symmetry
INVARIANTS
  OneActive
  OneLateEdit
  OneCurrent
  ServedWasVerified
  VerificationOwned
  GeneratingIsOwned
  GatesHonest
  OneExecution
  DrivenToTerminal
  SeriesFits
  NoLockCycle
  PublishedAsMeant
  OneJobPerKey
CHECK_DEADLOCK FALSE
