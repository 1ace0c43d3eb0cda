CONSTANTS
  Services = {s1}
  Plans = {p1, p2}
  ParamKeys = {k1}
  ParamValues = {v1, num, bad}
  Unrenderable = {bad}
  Numbers = {num}
  Missing = Missing
  Requests = {r1, r2}
  Menu <- LivenessMenu
  Instances = {i1}
  Workers = {w1, w2}
  MaxReceive = 2
  MaxBatch = 2
  Faults = {"abort", "crash", "overrun"}
  Serial = FALSE
  NoRequest = NoRequest
  NoArtifact = NoArtifact
  i1 = i1
  i2 = i2
  s1 = s1
  s2 = s2
  p1 = p1
  p2 = p2
  k1 = k1
  v1 = v1
  num = num
  bad = bad
  r1 = r1
  r2 = r2
  r3 = r3
  r4 = r4
  w1 = w1
  w2 = w2
SPECIFICATION FairSpec
INVARIANT InProgressIsBacked
PROPERTIES EmptiesLedger OperationEnds
CHECK_DEADLOCK FALSE
