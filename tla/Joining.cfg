CONSTANTS
  self = self
  a = a
  b = b
  c = c
  ua = ua
  ub = ub
  uc = uc
  never = never
  absent = absent
  nothing = nothing
  trickle = trickle
  Nothing = nothing
  Trickle = trickle
  Nodes <- MCNodes
  Peers <- MCNodes
  Self = self
  Urls <- MCUrls
  Seeds = {ua, ub}
  Manifests <- MCManifests
  NoManifest = absent
  NoTime = never
  Verdicts <- MCVerdicts
  Policy <- MCPolicy
  Resolves <- MCResolves
  AllowPrivate = FALSE
  Webs <- MCWebs
  Refs <- MCRefs
  Introducers = {c}
  Revocable = {c}
  MaxSkew = 2
  Second = 2
  MaxNow = 1
  MaxHints = 2
  PerPeerCap = 1
  PoolSize = 1
SPECIFICATION JoinFairSpec
INVARIANTS JoinTypeOK SeedsAgree HintsAreFollowed LooksUpOnce SucceededHasExecuted OnlyAdmittedCalled RecordsHaveManifests
PROPERTIES BootImplementsReports SweepImplementsReports FanImplementsReports JoinEnds FanOutEnds
CHECK_DEADLOCK FALSE
