SPECIFICATION Spec
CONSTANTS
  k1 = k1 k2 = k2
  Calls = {k1, k2}
  u1 = u1
  Users = {u1}
  RetryCount = 2
  SdkRetries = 0
  Offered <- MCOffered
  None = None
PROPERTIES JoinedWhenReported
CHECK_DEADLOCK FALSE
