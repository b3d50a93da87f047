SPECIFICATION FairSpec
CONSTANTS
  q = q
  p = p
  c1 = c1
  c2 = c2
  a1 = a1
  a2 = a2
  Requester = q
  Performer = p
  Specs <- MCSpecs
  Foreign <- MCForeign
  Conns = {c1, c2}
  Submissions <- MCSubmissions
  None = None
  NoDigest = NoDigest
  MaxTime = 2
  Tolerance = 1
  Leeway = 0
  MaxFaults = 1
INVARIANTS AcceptedIsSigned DeliveredIsAccepted AnsweredTaskIsWhole
PROPERTIES NoRevival RedeliveryFinalizes
