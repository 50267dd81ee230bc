\* Two handlers in flight; on a1 they may decide at the same time.
CONSTANTS
  Approvals = {a1, a2}
  Counts = {1, 2}
  Workers = {w1, w2}
  Contended = {a1}
  DecisionBound = 2
  None = None
SYMMETRY Symmetry
SPECIFICATION Spec
INVARIANTS TypeOK StatusIsJustified EnoughIsApproved
PROPERTIES ApprovalIsFinal
