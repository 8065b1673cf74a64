SPECIFICATION SearchSpec
CONSTANTS
  Corpora <- MCCorpora
  ValNum = 3
  ValDen = 4
  Shuffle <- MCShuffle
  TunableRules <- MCTunable
  Base <- MCBase
  Samples <- MCSamples
  Trials = 2
  RefineSteps = 2
  StepSize = 50
  WeightMin = 0
  WeightMax = 100
  AllowRange <- MCAllowRange
  BlockRange <- MCBlockRange
  BaseAllow = 30
  BaseBlock = 70
  Candidates <- MCCandidates
  BaseCategories = 2
  MaxHardFPRate = 12
  MaxSoftFPRate = 400
  Unit = 1200
INVARIANTS
  SplitRepeatable
CHECK_DEADLOCK FALSE
