CONSTANTS
  File = {f1, f2}
  Legacy = {}
  Content = {x1}
  Post = {p1}
  Channel = {ch}
  Collector = {g1}
  NoFile = NoFile
  MaxPosts = 1
  MaxCrashes = 0
SPECIFICATION FilesSpec
INVARIANTS
  RowsHaveBytes
CHECK_DEADLOCK FALSE
