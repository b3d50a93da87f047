SPECIFICATION FairSpec
CONSTANTS
  s1 = s1 
  s2 = s2
  a = a
  r1 = r1
  r2 = r2
  k1 = k1
  k2 = k2
  rc1 = rc1
  rc2 = rc2
  c1 = c1
  c2 = c2
  Stages = {s1, s2}
  Labels = {a}
  NoLabel = NoLabel
  Roots = {r1}
  MaxEpoch = 2
  Receipts = {rc1, rc2}
  ExecKeys = {k1, k2}
  Carriages = {c1}
  MaxArrivals = 2
  Performer <- MCPerformer
  NoRow = NoRow
  NoCall = NoCall
  NoMsg = NoMsg
PROPERTIES CallsReturn RetriedDispatchIsSent
