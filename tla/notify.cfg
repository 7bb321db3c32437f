SPECIFICATION FairSpec
CONSTANTS
  f1 = f1
  f2 = f2
  f3 = f3
  k1 = k1
  k2 = k2
  b1 = b1
  b2 = b2
  Events = {f1, f2, f3}
  Users = {u1}
  Buckets = {b1, b2}
  Keys = {k1, k2}
  BucketOf <- MCBucketOf
  KeyOf <- MCKeyOf
  None = None
  QueueSize = 1
  MaxAttempts = 2
  MaxEmits = 3
  MaxFailures = 2
  MaxCrashes = 1
  MaxChanges = 1
INVARIANTS TypeOK DuplicateOnlyAfterFailure
PROPERTIES OutboxSpec RowsSettle
CHECK_DEADLOCK FALSE
