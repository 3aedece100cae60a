SPECIFICATION FairSpec
CONSTANTS
  k1 = k1 k2 = k2
  Calls = {k1, k2}
  u1 = u1
  Users = {u1}
  RetryCount = 1
  SdkRetries = 1
  Offered <- MCOffered
  None = None
INVARIANTS TypeOK SuccessMeansDone FailureMeansNothing OkUpdatesInOrder
PROPERTIES KeepsContract ReturnsOrHangs
CHECK_DEADLOCK FALSE
