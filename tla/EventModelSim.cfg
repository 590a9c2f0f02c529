SPECIFICATION Spec
CONSTANTS
  NodeOrder <- MCNodeOrder
  Requests = {r1, r2, r3, r4}
  Amounts = {1, 2}
  InitialBalance = 1
  Operations = 4
SYMMETRY MCSymmetry
CHECK_DEADLOCK FALSE
INVARIANTS
  CheckpointIsComplete
  NodesNeverOverdraw
  SyncConverges
