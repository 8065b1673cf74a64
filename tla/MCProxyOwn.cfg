SPECIFICATION Spec
CONSTANTS
  r1 = r1
  r2 = r2
  p1 = p1
  p2 = p2
  s1 = s1
  s2 = s2
  Reqs = {r1, r2}
  Worker = Worker
  Pkgs = {p1, p2}
  Shas = {s1, s2}
  ShaOf <- OwnSha
  Layer1Max <- OwnVerdict
  BytesVerdict <- OwnBytes
  FullVerdict <- OwnVerdict
  Noisy = {p1, p2}
  TypoBlocks = {p2}
  Oversized = {s1}
  WarnOnly = FALSE
  BatchSize = 1
  NoEntry = NoEntry
  MaxFaults = 0
  MaxRestarts = 1
SYMMETRY Symmetry
INVARIANTS
  AnswerJustified
