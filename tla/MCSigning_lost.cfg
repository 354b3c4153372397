SPECIFICATION FairSpec
CONSTANTS
  Sends = {s1}
  s1 = s1
  f1 = f1
  p1 = p1
  p2 = p2
  Parties = {p1, p2}
  MaxSigners = 1
  Forms = {f1}
  PartyLists <- OneSigner
  Invitable <- OneSigner
  Modes = {"email"}
  Faults = {"move"}
  MaxCalls = 1
PROPERTY VendorOutcomeReachesRow
CHECK_DEADLOCK FALSE
