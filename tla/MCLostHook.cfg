SPECIFICATION FairSpec
CONSTANTS
  t1 = t1
  t2 = t2
  r1 = r1
  l1 = l1
  Roots = {r1}
  Labels = {l1}
  NoLabel = NoLabel
  MaxEpoch = 2
  Tasks = {t1, t2}
  Origin <- MCOrigin
  Covered = {t1}
PROPERTY AutoApprovedIsAnnounced
