SPECIFICATION DownloadSpec
CONSTANTS
  Cases <- MCCases
  MaxRetries = 2
  MaxTarballBytes = 10
  MaxFiles = 3
  MaxFileBytes = 4
  MaxTotalBytes = 8
  RatioNum = 1
  RatioDen = 5
INVARIANTS
  NewCapabilityFlagged
