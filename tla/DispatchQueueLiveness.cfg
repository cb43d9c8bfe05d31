CONSTANTS
  Bucket = {b1, b2}
  Content = {c1}
  MaxRetries = 2
  MaxItems = 3
  MaxHalts = 1
SPECIFICATION FairSpec
PROPERTIES
  EverySubmissionSettles
CHECK_DEADLOCK TRUE
