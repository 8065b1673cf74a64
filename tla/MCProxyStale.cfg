SPECIFICATION Spec
CONSTANTS
  r1 = r1
  r2 = r2
  p1 = p1
  p2 = p2
  s1 = s1
  s2 = s2
  Reqs = {r1, r2}
  Worker = Worker
  Pkgs = {p1}
  Shas = {s1}
  ShaOf <- SharedSha
  Layer1Max <- SharedLayer1
  BytesVerdict <- SharedVerdict
  FullVerdict <- SharedVerdict
  Noisy = {}
  TypoBlocks = {}
  Oversized = {}
  WarnOnly = TRUE
  BatchSize = 1
  NoEntry = NoEntry
  MaxFaults = 0
  MaxRestarts = 0
PROPERTY
  RecheckNeverStale
