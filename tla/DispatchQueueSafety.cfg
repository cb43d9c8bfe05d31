CONSTANTS
  Bucket = {b1, b2}
  Content = {c1, c2}
  MaxRetries = 2
  MaxItems = 3
  MaxHalts = 2
SPECIFICATION Spec
SYMMETRY Symmetry
INVARIANTS
  TypeOK
  NoStrandedBacklog
  SerialDelivery
  SettledExactlyOnce
  ArrivalOrder
  HaltIsACut
  ItemsAreAccounted
PROPERTIES
  KeepsPromise
CHECK_DEADLOCK TRUE
