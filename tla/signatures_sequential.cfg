\* One handler at a time, and none dies.
CONSTANTS
  Documents = {d1, d2}
  SignatureRequests = {r1}
  Orders = {1, 2}
  Workers = {w1}
  Failures = FALSE
  VersionBound = 2
  None = None
SPECIFICATION FairSpec
INVARIANTS CompletionIsDeterministic CapturedOnce
PROPERTY SignedIsFiled
