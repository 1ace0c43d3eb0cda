CONSTANTS
  Keys <- SomeKeys
  Ignored = {2}
  Values = {v1, bad}
  Absent = Absent
  Unparsable = {bad}
  PageSize = 2
  Interval = 2
  NoCache = NoCache
  MaxEvents = 2
  v1 = v1
  bad = bad
SPECIFICATION FairSpec
INVARIANTS TypeOK RefreshIsRegular CacheIsRecent
PROPERTIES CatchesUp
