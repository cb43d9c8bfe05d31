CONSTANTS
  Target = {ta}
  MaxSeq = 3
  MaxConnects = 3
  MaxVisits = 0
  FillPage = 1
  FillMaxPages = 3
  FillWorkers = 1
  NewestPage = 1
SPECIFICATION FeedSpec
PROPERTIES
  FailureIsMadeGood
CHECK_DEADLOCK FALSE
