SPECIFICATION Spec
CONSTANTS
  Uploads = {s1, s2}
  Verifies = {c1, c2}
  Persons = {p1, p2}
  Nobody = Nobody
  None = None
  DemoMode = TRUE

SYMMETRY Alike
INVARIANTS TypeOK FiledUnderItsOwnName ConfirmedWithItsRecord PhotographsDoNotMix RecordHasAPhotograph
CHECK_DEADLOCK FALSE
