SPECIFICATION PartsSpec
CONSTANTS
  r1 = r1
  r2 = r2
  Requests = {r1, r2}
  Worker = Worker
  Mode = "both"
  SyslogAddr = TRUE
  WebhookURL = TRUE
  BufSize = 2
  MaxUpgrades = 1
  Cases <- MCCases
  MaxRetries = 2
  MaxTarballBytes = 10
  MaxFiles = 3
  MaxFileBytes = 4
  MaxTotalBytes = 8
  RatioNum = 1
  RatioDen = 5
  PackageList <- MCPackageList
  Top = 3
  Safe <- MCSafe
  Concurrency = 2
  MaxAttempts = 2
  MaxVersion <- MCMaxVersion
  MaxFaults = 2
  MaxRuns = 1
  Requested = 0
  NumCPU = 3
INVARIANTS
  PartsTypeOK
  NoEventVanishes
  AbortOnlyAfterGrace
  TreeIsPublished
  TreeWithinLimits
  AnalysisOrderFree
  DeepSignalsJustified
  RunAccounted
  EntriesAccounted
PROPERTIES
  FeedSpec
  NobodyWaitsForSinks
  BufferedEventOffered
  AnalysisEnds
  ImportEnds
  PoolDelivers
