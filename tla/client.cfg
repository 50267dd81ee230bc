\* Two rows, two or three events that call the API next to the loads they lead to.
CONSTANTS
  Rows = {r1, r2}
  UseBound <- MCUseBound
  None = None
  Failed = Failed
SPECIFICATION ClientSpec
SYMMETRY MCRows
CHECK_DEADLOCK FALSE
INVARIANTS EditsMatchTheirRow ButtonsComeBack ShowsWhatIsStored
