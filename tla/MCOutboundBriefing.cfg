SPECIFICATION Spec
CONSTANTS
  Workers = {w1, w2}
  Msgs = {check, daily}
  MaxRetries = 1
  NoMsg = NoMsg
  Briefings = {daily}
  Articles = {a1, a2, a3}
  HighScore = {a1, a2}
  Hits <- MCHits
  MinSources = 2
  Ids = {i1, i2}
  a1 = a1
  a2 = a2
  a3 = a3
INVARIANTS
  BriefingRowMeansSent
SYMMETRY Symmetry
