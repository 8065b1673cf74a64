SPECIFICATION AlgSpec
CONSTANTS
  MaxLength = 6
  Words <- MCWords
  NoWord = NoWord
  Lev <- levenshtein
  Damerau <- damerauLevenshtein
  CloseDistance = 1
  WarnDistance = 2
  MaxNodes = 4
  PopularList <- MCPopularList
  Asked <- MCAsked
  NoName = NoName
  Folded <- MCFolded
  CombosquatScore = 20
  ScopeCloseScore = 55
  ScopeWarnScore = 25
  CombosquatMinSegLen = 2
  MaxLines = 4
  AllowThreshold = 30
  BlockThreshold = 70
  MinCategories = 2
  MaxSum = 75
  Layer1Signals <- MCLayer1Signals
  PostSignals <- MCPostSignals
  ComboScore <- MCComboScore
  Corpora <- MCCorpora
  ValNum = 3
  ValDen = 4
  Shuffle <- MCShuffle
  TunableRules <- MCTunable
  Base <- MCBase
  Samples <- MCSamples
  Trials = 2
  RefineSteps = 2
  StepSize = 50
  WeightMin = 0
  WeightMax = 100
  AllowRange <- MCAllowRange
  BlockRange <- MCBlockRange
  BaseAllow = 30
  BaseBlock = 70
  Candidates <- MCCandidates
  BaseCategories = 2
  MaxHardFPRate = 12
  MaxSoftFPRate = 400
  Unit = 1200
  PackageList <- MCList
  Top = 2
  Safe <- MCSafe
  Concurrency = 2
  MaxAttempts = 2
  MaxVersion <- MCMaxVersion
  MaxFaults = 2
  MaxRuns = 2
  Requested = 2
  NumCPU = 1
  Corrupt = {"q"}
INVARIANTS
  AlgTypeOK
  SearchComplete
  CloseMatchFound
  DistancesRight
  SourceScrubbed
  LookalikeReported
  LabelsBacked
  DropsExplained
  
  DescentsSettle
  FrontierCovers
PROPERTY
  VerdictNeverDrops
CHECK_DEADLOCK FALSE
