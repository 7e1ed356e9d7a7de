SPECIFICATION MCSpec
CONSTANTS
  Slots <- MCSlots
  Hashed = {2}
  Versions = {v1, v2}
  PartVersion = part
  MaxLaunches = 3
  Pids = {p, q}
  Tolerance = 3
  DumpLag = 1
  Cap = 2
  MaxTime = 6
  MaxReports = 3
  MaxBoots = 3
  NoMO2 = NoMO2
  NoManifest = NoManifest
  kMaxInstalledMods = 4
  kMaxSetupIssues = 4
  SanityFloor = 1
  Games <- MCGames
  Inis <- MCInis
  Prefixed <- MCPrefixed
  TornValues <- MCTornValues
  kPhantomLiberty = "Phantom Liberty"
  Databases <- MCDatabases
  Archives = {"x", "y", "z"}
  kMaxConflictGroups = 2
  kMaxMissingDeps = 2
  Logs <- MCLogs
  Dirs <- MCDirs
  ByteLimits = {3, 5}
  LineLimits = {0, 1, 2}
  Windows <- MCWindows
  Crashes <- MCCrashes
  Launches <- MCLaunches
  ALaunch <- MCLaunch
  Modules <- MCModules
  Symbols <- MCSymbols
  Build = "2.3"
  kMaxFingerprintTail = 1
  kMaxModFrames = 1
INVARIANTS
  DiffExact
  FatalReportHasOwnState
  BootEnrichesAll
  ArchiveShowsNewest
  SetupIsTruthful
  
  ConflictsAreExact
  SettingsAreKept
  LogsAreExact
  CrashIdsGroup
SYMMETRY MCSymmetry
CHECK_DEADLOCK FALSE
