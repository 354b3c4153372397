SPECIFICATION Spec
CONSTANTS
  Requests = {r1, r2, r3}
  Entries = {e1, e2}
  Snapshots = {p}
  e1 = e1
  Complete <- OnlyE1
  None = None
SYMMETRY Alike
INVARIANTS TypeOK FilledHasADrawing SentWasDrawn NothingIncompleteIsDrawn OneRowPerForm OneContractOut
PROPERTY FillsDescribeDrawings
CHECK_DEADLOCK FALSE
