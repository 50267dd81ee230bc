\* Two handlers in flight at once, which may die.
CONSTANTS
  Documents = {d1}
  SignatureRequests = {r1}
  Orders = {1, 2}
  Workers = {w1, w2}
  Failures = TRUE
  VersionBound = 1
  None = None
SYMMETRY WorkerSymmetry
SPECIFICATION Spec
INVARIANTS TypeOK EvidenceInOrder SignedHasEvidence VersionsNumbered
PROPERTIES ImplementsContract
