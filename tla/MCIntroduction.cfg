SPECIFICATION FairSpec
CONSTANTS
  a = a
  b = b
  c1 = c1
  c2 = c2
  m1 = m1
  m2 = m2
  bad = bad
  Endpoints = {a, b}
  Conns = {c1, c2}
  Materials = {m1, m2, bad}
  Conforming = {m1, m2}
  Installed = m1
  NoMaterial = NoMaterial
  NoRoot = NoRoot
  MaxEpoch = 2
  KnockCap = 1
  MaxFaults = 1
INVARIANTS TypeOK RemovedIsForgotten
PROPERTIES NoStaleCommit DialerPinsAfterResponder RepinNeedsRemoval HealsByRetry
