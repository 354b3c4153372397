SPECIFICATION Spec
CONSTANTS
  Sends = {s1}
  s1 = s1
  f1 = f1
  p1 = p1
  p2 = p2
  Parties = {p1, p2}
  MaxSigners = 2
  Forms = {f1}
  PartyLists <- OneOrTwo
  Invitable <- OneOrTwo
  Modes = {"email"}
  Faults = {"send"}
  MaxCalls = 1
INVARIANT CreatedIsResumable
CHECK_DEADLOCK FALSE
