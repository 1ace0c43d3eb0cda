CONSTANTS
  Checks = {c1, c2, c3}
  Keys = {k1}
  Decodable = {k1}
  Lives <- SomeLives
  Ttl = 2
  Timeout = 1
  NoKey = NoKey
  MaxTime = 5
  k1 = k1
  c1 = c1
  c2 = c2
  c3 = c3
SPECIFICATION FairSpec
INVARIANTS TypeOK AnswersAreRecent
PROPERTIES RefetchesOverlap ChecksEnd
CHECK_DEADLOCK FALSE
