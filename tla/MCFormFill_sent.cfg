SPECIFICATION Spec
CONSTANTS
  Requests = {r1, r2}
  Entries = {e1, e2}
  Snapshots = {p}
  e1 = e1
  Complete <- Everything
  None = None
SYMMETRY Alike
INVARIANT SentIsWhatWasChecked
CHECK_DEADLOCK FALSE
