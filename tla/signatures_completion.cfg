\* Two handlers in flight: does the status follow from the participants'?
CONSTANTS
  Documents = {d1}
  SignatureRequests = {r1}
  Orders = {1, 2}
  Workers = {w1, w2}
  Failures = FALSE
  VersionBound = 1
  None = None
SPECIFICATION Spec
INVARIANT CompletionIsDeterministic
