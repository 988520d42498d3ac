CONSTANTS
  Scripts = {s1, s2, s3}
  MaxRuns = 2
  Regions = {west, east, south}
  SourceRegion = west
  VersionsToKeep = 2
  MaxVersion = 3
  SkipLoading = FALSE
  MaxResets = 2
  MaxRequests = 3
  Pieces <- MCPieces
  Modes <- MCModes
  MaxPieces = 3
  MaxLong = 1
SPECIFICATION MCSpec
INVARIANTS
  RetryIsPossible
  BackupIsComplete
  NeverWithout
  NothingLeftBehind
  FreshWhenLowered
  SettingKept
  ReadAsWritten
  RestUntouched
  PrintedReadsBack
PROPERTIES
  ReadyIsPublished
  SeenCrashIsReported
  WaitsEnd
  RequestServed
  KeepsPromise
