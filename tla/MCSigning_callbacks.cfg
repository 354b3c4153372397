SPECIFICATION Spec
CONSTANTS
  Sends = {s1}
  s1 = s1
  f1 = f1
  p1 = p1
  p2 = p2
  Parties = {p1, p2}
  MaxSigners = 2
  Forms = {f1}
  PartyLists <- TwoSigners
  Invitable <- TwoSigners
  Modes = {"email", "embedded"}
  Faults = {"send", "insert", "move", "ack", "delivery"}
  MaxCalls = 2
INVARIANTS RowBehindVendor SignaturesNotOvercounted
PROPERTY StatusNeverBackwards
CHECK_DEADLOCK FALSE
