SPECIFICATION Spec
CONSTANTS
  Uploads = {s1}
  Verifies = {c1, c2}
  Persons = {p1}
  Nobody = Nobody
  None = None
  DemoMode = TRUE
INVARIANT OneRecordPerScan
CHECK_DEADLOCK FALSE
