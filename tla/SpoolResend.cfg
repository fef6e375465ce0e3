SPECIFICATION Spec
CONSTANTS
  Txs = {1, 2, 3}
  Servers = {1, 2}
  Scenarios <- BucketResend
INVARIANT PendingReadable
CHECK_DEADLOCK FALSE
