SPECIFICATION MCSpec
CONSTANTS
  boot = boot
  user = user
  p = p
  q = q
  a = a
  b = b
  none = none
  nothing = nothing
  Callers = {boot, user}
  Targets <- MCTargets
  Names = {p, q}
  Ids = {a, b}
  NoId = none
  NoAsset = nothing
  Releases <- MCReleases
  Wants <- MCWants
  handler = handler
  noFile = noFile
  Width = 8
  NearLimit = 2
  FarLimit = 4
  Files <- MCFiles
  NoFile = noFile
  Readers = {handler}
  MaxFails = 2
  phase = phase
  combat = combat
  cut1 = cut1
  long1 = long1
  Keys <- MCKeys
  CetKeys = {phase, combat}
  Values = {1, 2}
  NoValue = 0
  Field <- MCField
  MaxEntries = 3
INVARIANTS
  OneDownload
  PlacedMatches
  MatchFound
  NamesAreNearest
  OneDetour
  WorkerEndsFirst
  LatestShown
  CetCacheTruthful
PROPERTIES
  DownloadEnds
  HookGetsAttached
CHECK_DEADLOCK FALSE
